---------------------------- MODULE Spec2Model ----------------------------
(***************************************************************************)
(* A model of the pflow execution engine: the Shared Context's locker,     *)
(* abort controller and event emitter (src/src/Shared.ts), the building of *)
(* a graph with on and next, the node lifecycle with retry, the batch      *)
(* nodes, the Flow orchestrator and the batch flows (src/src/BaseNode.ts,  *)
(* src/unnamed/part_000), and the Inspector (src/src/Inspector.ts).        *)
(*                                                                         *)
(* JavaScript runs each piece of code between two awaits atomically, so an *)
(* action of this module is the code between two suspension points.        *)
(***************************************************************************)
EXTENDS Integers, Sequences, FiniteSets, TLC

(***************************************************************************)
(* Bounds of the model.                                                    *)
(***************************************************************************)
\* Number of concurrent callers of the locker.
MaxCallers == 3

Callers == 1..MaxCallers

\* Resource ids handed to the locker.
ResourceIds == {"r1", "r2"}

\* Largest maxRetries a node is constructed with.
MaxRetries == 3

\* Most node runs the Flows start (in one run(), and clones made in all).
MaxRuns == 5

\* Most calls of run() on the same Flow, one after the other.
MaxCalls == 2

\* Most items in the array a batch node's prep returns.
MaxItems == 2

\* Most parameter records in the array a batch flow's prep returns.
MaxRecords == 2

\* Most calls of on and next while a graph is built.
MaxBuildCalls == 2

\* Most listeners registered with shared.on, over all contexts.
MaxEmitListeners == 2

\* Most calls of shared.emit.
MaxEmits == 1
MaxCloneCalls == 3
MaxLogListeners == 2
MaxLogSubscribers == 1
MaxLogCalls == 2
MaxLogDepth == 1

VARIABLES
    locks,      \* Shared._locks: resource id -> absent, or the array of waiting resolvers
    lockPc,     \* per caller: where it is in  acquire ; critical section ; release
    lockRes,    \* per caller: the resource id it works on
    lockCall,   \* per caller: its call of withLock, if it made one
    ctx,        \* the abort controllers, the listeners of shared.on and the emit calls
    heap,       \* the node objects: address -> own properties
    stack,      \* the chain of pending _run calls, innermost last
    trace,      \* the calls of overridable methods and of the logger, in order
    outcome,    \* how the promise returned by run() settled
    nextId,     \* the ids uuid() has not handed out yet start here
    pstore,     \* the parameter records (_params objects), by reference
    sdata,      \* the data payload of each Shared Context, by reference
    calls,      \* how many times the caller has called run() or exec()
    tasks,      \* a batch node's items: the state of each item's _execItem
    finished,   \* the items whose _execItem has settled, in the order they did
    parked,     \* the coroutines that are not running: the stack and the trace of each
    cur,        \* which coroutine is running (0: the one of the caller's run())
    insp        \* the Inspector's context: its listener lists, and the collect call

\* The variables of the Shared Context other than its data payload.
sharedVars == <<locks, lockPc, lockRes, lockCall, ctx>>

engineVars == <<heap, stack, trace, outcome, nextId, pstore, sdata, calls, tasks, finished, parked, cur, insp>>

\* The trace-event names collect listens to (Inspector.collect).
TraceEvents ==
    {"run_start", "run_end", "prep_start", "prep_result", "post_start", "post_result",
     "exec_start", "exec_result", "orchestrate_start", "orchestrate_end"}

\* The context of an Inspector nobody has used: no listener, no collect
\* call, no inject call (root is the node the last inject was given). slow
\* tells whether a listener of other code returns a promise that settles
\* later, and released which of the emits waiting for it have gone on.
InspIdle ==
    [listeners |-> [e \in TraceEvents |-> <<>>], keys |-> {}, next |-> 1,
     pc |-> "none", before |-> [e \in TraceEvents |-> <<>>],
     first |-> 0, injects |-> 0, root |-> 0, result |-> [st |-> "pending"],
     slow |-> FALSE, released |-> <<>>]

\* The Shared Contexts the caller constructs.
Contexts == {1, 2}

\* type LogLevel, without "debug": _log tests the level for being "error"
\* only, and treats debug as it treats info and warn.
LogLevels == {"info", "warn", "error"}

\* Contexts nobody has aborted, listened to or emitted on, each constructed
\* without a parent controller (parent 0) and so with an abort controller of
\* its own (a controller is named after the context whose constructor made
\* it).
CtxIdle ==
    [parent |-> [s \in Contexts |-> 0],
     controller |-> [s \in Contexts |-> s], aborted |-> [c \in Contexts |-> FALSE],
     listeners |-> [s \in Contexts |-> <<>>], emits |-> <<>>, errors |-> <<>>,
     abortCalls |-> {},
     logListeners |-> [level \in LogLevels |-> <<>>], allLogsListeners |-> <<>>,
     logIds |-> 0, logCalls |-> <<>>, delivered |-> {}, logEmits |-> <<>>,
     logQueue |-> <<>>]

\* Only the coroutine of the caller's run() exists, and it is running.
NoneParked == [k \in {0} |-> [stack |-> <<>>, trace |-> <<>>]]

vars == <<locks, lockPc, lockRes, lockCall, ctx, heap, stack, trace, outcome, nextId, pstore, sdata, calls, tasks, finished, parked, cur, insp>>

(***************************************************************************)
(* Shared.locker  (src/src/Shared.ts 62-134)                               *)
(***************************************************************************)
\* An entry of the Map _locks: has(id) and the array get(id) of resolvers,
\* each resolver standing for the caller whose acquire promise it resolves.
NoEntry == [has |-> FALSE, waiting |-> <<>>]

LocksInit == [r \in ResourceIds |-> NoEntry]

\* What a critical section does: it resolves with a value or it throws.
Bodies ==
    {[st |-> "resolved", val |-> "v1"], [st |-> "rejected", err |-> "e1"]}

\* A caller that is not in a call of withLock and has no result of one.
NoWithLock == [st |-> "none", log |-> <<>>, result |-> [st |-> "pending"]]

\* The test of acquire: the id is free.
AcquireIsFree(entry) == ~entry.has \/ Len(entry.waiting) = 0

\* acquire(resourceId), the promise executor, which runs synchronously:
\* returns the new entry and whether resolve() was called.
LockerAcquire(entry, c) ==
    IF AcquireIsFree(entry)
    THEN [entry |-> [has |-> TRUE, waiting |-> <<>>], resolved |-> TRUE]
    ELSE [entry |-> [has |-> TRUE, waiting |-> Append(entry.waiting, c)],
          resolved |-> FALSE]

\* release(resourceId): returns the new entry and the set of callers whose
\* resolver was called.
LockerRelease(entry) ==
    IF ~entry.has
    THEN [entry |-> entry, woken |-> {}]
    ELSE LET shifted == Len(entry.waiting) > 0
             rest == IF shifted THEN Tail(entry.waiting) ELSE entry.waiting
             woken == IF shifted THEN {Head(entry.waiting)} ELSE {}
         IN  [entry |-> IF Len(rest) = 0 THEN NoEntry
                        ELSE [has |-> TRUE, waiting |-> rest],
              woken |-> woken]

\* A caller calls acquire(r): the executor runs at once.
Acquire(c, r) ==
    /\ lockPc[c] = "idle"
    /\ LET a == LockerAcquire(locks[r], c)
       IN  /\ locks' = [locks EXCEPT ![r] = a.entry]
           /\ lockPc' = [lockPc EXCEPT ![c] = IF a.resolved THEN "granted" ELSE "waiting"]
    /\ lockRes' = [lockRes EXCEPT ![c] = r]
    /\ lockCall' = [lockCall EXCEPT ![c] = NoWithLock]
    /\ UNCHANGED <<ctx, engineVars>>

\* The caller's  await acquire(r)  resumes: it is in its critical section
\* (inside withLock: criticalSection() is called, and runs to its await).
Enter(c) ==
    /\ lockPc[c] = "granted"
    /\ lockPc' = [lockPc EXCEPT ![c] = "cs"]
    /\ lockCall' = [lockCall EXCEPT ![c] =
                      IF @.st = "called" THEN [@ EXCEPT !.log = Append(@, "body")] ELSE @]
    /\ UNCHANGED <<locks, lockRes, ctx, engineVars>>

\* The caller leaves its critical section and calls release(r).
Release(c) ==
    /\ lockPc[c] = "cs"
    /\ lockCall[c].st # "called"
    /\ LET rel == LockerRelease(locks[lockRes[c]])
       IN  /\ locks' = [locks EXCEPT ![lockRes[c]] = rel.entry]
           /\ lockPc' = [d \in Callers |->
                            IF d = c THEN "idle"
                            ELSE IF d \in rel.woken THEN "granted"
                            ELSE lockPc[d]]
    /\ UNCHANGED <<lockRes, lockCall, ctx, engineVars>>

\* withLock(r, criticalSection) up to its first await: acquire(r) is called
\* and its executor runs.
WithLock(c, r, body) ==
    /\ lockPc[c] = "idle"
    /\ LET a == LockerAcquire(locks[r], c)
       IN  /\ locks' = [locks EXCEPT ![r] = a.entry]
           /\ lockPc' = [lockPc EXCEPT ![c] = IF a.resolved THEN "granted" ELSE "waiting"]
    /\ lockRes' = [lockRes EXCEPT ![c] = r]
    /\ lockCall' = [lockCall EXCEPT ![c] =
                      [st |-> "called", body |-> body, log |-> <<"acquire">>,
                       result |-> [st |-> "pending"]]]
    /\ UNCHANGED <<ctx, engineVars>>

\* The finally block of withLock runs on one exit path only.
FinallyRuns_OnReturn(body) == body.st = "resolved"

\* The finally block of withLock runs however the try block was left.
FinallyRuns(body) == TRUE

\* What the promise of withLock settles with:  return await criticalSection()
\* returns the value, or lets the error go through the finally block.
WithLockResult(body) == body

\* The critical section settles;  return await  resumes, the finally block
\* calls release(r), and the promise of withLock settles.
WithLockSettle(c) ==
    /\ lockPc[c] = "cs"
    /\ lockCall[c].st = "called"
    /\ LET released == FinallyRuns(lockCall[c].body)
           rel == IF released THEN LockerRelease(locks[lockRes[c]])
                  ELSE [entry |-> locks[lockRes[c]], woken |-> {}]
       IN  /\ locks' = [locks EXCEPT ![lockRes[c]] = rel.entry]
           /\ lockPc' = [d \in Callers |->
                            IF d = c THEN "idle"
                            ELSE IF d \in rel.woken THEN "granted"
                            ELSE lockPc[d]]
           /\ lockCall' = [lockCall EXCEPT ![c] =
                             [@ EXCEPT !.st = "settled",
                                       !.log = IF released THEN Append(@, "release") ELSE @,
                                       !.result = WithLockResult(lockCall[c].body)]]
    /\ UNCHANGED <<lockRes, ctx, engineVars>>

\* No node runs while the locker is exercised.
EngineIdle ==
    /\ heap = <<>>
    /\ stack = <<>>
    /\ trace = <<>>
    /\ outcome = [st |-> "pending"]
    /\ nextId = 1
    /\ pstore = <<>>
    /\ sdata = <<>>
    /\ calls = 0
    /\ tasks = <<>>
    /\ finished = <<>>
    /\ parked = NoneParked
    /\ cur = 0
    /\ insp = InspIdle

LockInit ==
    /\ EngineIdle
    /\ locks = LocksInit
    /\ lockPc = [c \in Callers |-> "idle"]
    /\ lockRes = [c \in Callers |-> "r1"]
    /\ lockCall = [c \in Callers |-> NoWithLock]
    /\ ctx = CtxIdle

LockNext ==
    \/ \E c \in Callers, r \in ResourceIds : Acquire(c, r)
    \/ \E c \in Callers : Enter(c)
    \/ \E c \in Callers : Release(c)

SpecLock == LockInit /\ [][LockNext]_vars

\* Callers of withLock next to callers of acquire and release.
WithLockNext ==
    \/ \E c \in Callers, r \in ResourceIds, body \in Bodies : WithLock(c, r, body)
    \/ \E c \in Callers : WithLockSettle(c)
    \/ LockNext

SpecWithLock == LockInit /\ [][WithLockNext]_vars

\* A caller holds r from the resolution of its acquire to its call of release.
Holds(c, r) == lockPc[c] \in {"granted", "cs"} /\ lockRes[c] = r

\* C1: critical sections guarded by the same resource id never overlap: at
\* most one caller at a time is between the resolution of its acquire(id)
\* and its call of release(id).
C1_MutualExclusion ==
    \A r \in ResourceIds : Cardinality({c \in Callers : Holds(c, r)}) <= 1


(***************************************************************************)
(* Values, actions and node objects                                        *)
(***************************************************************************)
\* The JavaScript value undefined.
Undefined == [t |-> "undefined"]

\* The action strings a post may return; "" and "default" are both strings.
Actions == {"default", "", "go", "stop"}

\* post returning undefined (no action).
UndefAction == "<undefined>"

ActionResults == Actions \cup {UndefAction}

\* What a user's prep returns: nothing (the default prep), or a value.
PrepResults == {Undefined, [t |-> "val", v |-> "p"]}

\* The wait (seconds) a node is constructed with: none, or some.
WaitSeconds == {0, 1}

\* The empty successor map of a new node: no action has a successor.
NoSuccessors == [a \in Actions |-> 0]

\* _successors.size
SuccessorsSize(successors) == Cardinality({a \in Actions : successors[a] # 0})

\* A parameter record: the keys it has, each with its value.
ParamKeys == {"k1", "k2"}

\* _params = {}
EmptyParams == [k \in ParamKeys |-> "<absent>"]

\* The record a caller gives the Flow with setParams.
CallerParams == [EmptyParams EXCEPT !["k1"] = "flow"]

\* A parameter record a node was given with setParams before it was put
\* into a graph.
TemplateParams == [k1 |-> "tmpl", k2 |-> "tmpl"]

\* new Shared({count: 0}): the data payload of a context.
NewSharedData == [count |-> 0]

\* new Node(maxRetries, wait) of a user's subclass (BaseNode's field
\* initialisers, Node's constructor). At construction the node at address id
\* gets the id, the parameter record and the Shared Context of the same
\* number. The subclass keeps an attempt counter and throws from exec on its
\* first failN attempts, as EventualSuccessNode of tests/fallback.test.ts
\* does; fallback says what its execFallback does, prepResults and
\* postActions what its prep and post may return, ownPost whether it has a
\* post of its own; failOn is the key (parameter k2) for which its phase
\* failPhase always throws, as the exec of AsyncErrorNode of
\* tests/async-batch-flow.test.ts does. injected is the Inspector's marker
\* __injected__ and wraps the number of wrappers the Inspector has put
\* around each of the node's methods. tmpl is not a property of
\* the object: it remembers which constructed node the object is a copy of.
NewNode(cls, id, maxRetries, wait, failN, fallback) ==
    [cls |-> cls, id |-> id, tmpl |-> id, params |-> id, shared |-> id,
     successors |-> NoSuccessors, start |-> 0,
     maxRetries |-> maxRetries, wait |-> wait,
     attemptCount |-> 0, failN |-> failN, fallback |-> fallback,
     prepResults |-> {Undefined}, postActions |-> {UndefAction}, ownPost |-> TRUE,
     failOn |-> "<none>", failPhase |-> "exec",
     injected |-> FALSE, wraps |-> 0, writes |-> "<none>"]

\* new Flow(start)
NewFlow(id, start) ==
    [NewNode("Flow", id, 0, 0, 0, "default") EXCEPT !.start = start]

\* A plain node of a graph: one attempt, exec succeeds.
PlainNode(id) == NewNode("Node", id, 1, 0, 0, "default")

\* An on that keeps the successor an action already has.
On_KeepsFirst(node, action, next) ==
    IF node.successors[action] # 0 THEN node
    ELSE [node EXCEPT !.successors[action] = next]

\* node.on(action, next): _successors.set(action, next).
On(node, action, next) == [node EXCEPT !.successors[action] = next]

\* One pending _run call. For a Flow, p is the parameter record _orchestrate
\* was called with (0: none) and trav the number of the batch record the
\* traversal is for (0: not a batch).
NewFrame(addr, pc) ==
    [obj |-> addr, pc |-> pc, currentRetry |-> 0,
     prepRes |-> Undefined, execRes |-> Undefined, err |-> Undefined,
     ret |-> UndefAction, p |-> 0, trav |-> 0]

Top == stack[Len(stack)]

SetTop(frame) == [stack EXCEPT ![Len(stack)] = frame]

\* The Flow whose _orchestrate runs the innermost node (0: none, run() was
\* called on the node itself).
Orchestrator == IF Len(stack) >= 2 THEN stack[Len(stack) - 1].obj ELSE 0

\* One observed call: the method, the receiver (its address, its id, the
\* node it is a copy of, its attempt counter when called), the Flow running
\* it, the arguments a and b (for a prep, which has none, b is the value it
\* returned) and, for a post, the action returned; the parameters the
\* receiver has, the batch record its traversal is for, and whether the
\* caller's run() was still pending.
EventOf(ev, addr, node, params, a, b, ret) ==
    [ev |-> ev, obj |-> addr, id |-> node.id, tmpl |-> node.tmpl,
     n |-> node.attemptCount, by |-> Orchestrator,
     a |-> a, b |-> b, ret |-> ret,
     params |-> params, trav |-> stack[1].trav,
     after |-> outcome.st]

Event(ev, addr, a, b, ret) ==
    EventOf(ev, addr, heap[addr], pstore[heap[addr].params], a, b, ret)

Log(event) == Append(trace, event)

\* shared.emit(name, snapshot(node, data)) by each of the wrappers the
\* Inspector has put around a method of the node: the name of the trace
\* event and the snapshot's id, params and data (an action is boxed).
EmitsOf(name, addr, node, params, data) ==
    [i \in 1..node.wraps |->
        EventOf("emit", addr, node, params, [t |-> "event", name |-> name], data, UndefAction)]

Emits(name, addr, data) ==
    EmitsOf(name, addr, heap[addr], pstore[heap[addr].params], data)

BoxAction(a) == [t |-> "action", v |-> a]

\* A call of prep, exec or post of a node: each wrapper emits the start
\* event, awaits the method it wraps and, when that returned, emits the
\* result event.
Wrapped(phase, addr, startData, call, returned, resultData) ==
    LET StartName == CASE phase = "prep" -> "prep_start" [] phase = "exec" -> "exec_start"
                       [] phase = "post" -> "post_start"
        ResultName == CASE phase = "prep" -> "prep_result" [] phase = "exec" -> "exec_result"
                        [] phase = "post" -> "post_result"
    IN  Emits(StartName, addr, startData) \o << call >> \o
        (IF returned THEN Emits(ResultName, addr, resultData) ELSE <<>>)

LogPhase(phase, addr, startData, call, returned, resultData) ==
    trace \o Wrapped(phase, addr, startData, call, returned, resultData)

\* A rejection that replaces the error run() has rejected with.
Reject_LastWins(err) ==
    /\ outcome' = [st |-> "rejected", val |-> err]
    /\ stack' = <<>>

\* A rejected promise travels up through every pending _run: none catches.
\* The promise of run() rejects with it unless it has rejected already.
Reject(err) ==
    /\ outcome' = IF outcome.st = "pending" THEN [st |-> "rejected", val |-> err] ELSE outcome
    /\ stack' = <<>>

(***************************************************************************)
(* The graphs the flows are run on                                         *)
(***************************************************************************)
GraphNames == {"chain", "branch", "nested", "single", "loop"}

\* A user's node of a graph: its post may return any action.
GraphNode(id, maxRetries, wait, failN, fallback) ==
    [NewNode("Node", id, maxRetries, wait, failN, fallback)
        EXCEPT !.postActions = ActionResults]

\* A -> B -> C on default edges (A retries once), in Flow 1.
ChainGraph ==
    << NewFlow(1, 2),
       On(GraphNode(2, 2, 0, 1, "default"), "default", 3),
       On(GraphNode(3, 1, 0, 0, "default"), "default", 4),
       GraphNode(4, 1, 0, 0, "default") >>

\* Review -> (go) Revise -> (default) Review ..., Review -> (default) Done;
\* Review has an edge to itself on "" that no action resolves to, Review
\* waits before its retry, Done fails and has no execFallback of its own.
BranchGraph ==
    << [NewFlow(1, 2) EXCEPT !.postActions = {UndefAction, "go"},
                             !.prepResults = PrepResults],
       [On(On(On(GraphNode(2, 2, 1, 1, "default"), "go", 3), "default", 4), "", 2)
           EXCEPT !.prepResults = PrepResults],
       On(GraphNode(3, 1, 0, 0, "default"), "default", 2),
       GraphNode(4, 1, 0, 1, "default") >>

\* Outer Flow 1: A -> Inner -> (default) C, Inner -> (go) Y;
\* Inner is Flow 3: X -> (default) Y; Y fails and falls back to a value.
NestedGraph ==
    << NewFlow(1, 2),
       On(GraphNode(2, 1, 0, 0, "default"), "default", 3),
       [On(On(NewFlow(3, 5), "default", 4), "go", 6)
           EXCEPT !.postActions = {UndefAction, "go", "stop"},
                  !.prepResults = PrepResults],
       GraphNode(4, 1, 0, 0, "default"),
       On(GraphNode(5, 1, 0, 0, "default"), "default", 6),
       GraphNode(6, 1, 0, 1, "value") >>

\* Flow 1 over a single node A without edges.
SingleGraph == << NewFlow(1, 2), GraphNode(2, 1, 0, 0, "default") >>

\* Flow 1 over a single node A whose only edge leads back to A on "go".
LoopGraph == << NewFlow(1, 2), On(GraphNode(2, 1, 0, 0, "default"), "go", 2) >>

\* The nodes as constructed, before the caller hands the Flow its context
\* and parameters.
GraphHeap(g) ==
    IF g = "chain" THEN ChainGraph
    ELSE IF g = "branch" THEN BranchGraph
    ELSE IF g = "nested" THEN NestedGraph
    ELSE IF g = "single" THEN SingleGraph
    ELSE LoopGraph

(***************************************************************************)
(* BaseNode.run / BaseNode._run  (src/src/BaseNode.ts 109-129)             *)
(***************************************************************************)
\* A Flow without its own _run.
RunsAsFlow_Never(obj) == FALSE

\* Which _run a node has: Flow overrides BaseNode._run.
RunsAsFlow(obj) == obj.cls = "Flow"

\* BatchFlow and ParallelBatchFlow override Flow._run.
IsBatchFlow(obj) == obj.cls \in {"BatchFlow", "ParallelBatchFlow"}

\* Phases that never throw.
PhaseThrows_Never(obj, phase) == FALSE

\* The user's prep, exec or post throws when the node's parameters have the
\* key it fails on.
PhaseThrows(obj, phase) ==
    obj.failPhase = phase /\ pstore[obj.params]["k2"] = obj.failOn

PhaseError(obj, phase) ==
    [t |-> "error", msg |-> phase, attempt |-> 0, key |-> pstore[obj.params]["k2"]]

\* Which _exec a node has: Node overrides BaseNode._exec with the retry loop.
HasRetryWrapper(obj) == obj.cls = "Node"

\* A run() that starts _run without looking at the successors.
Run_Silent ==
    /\ stack # <<>> /\ Top.pc = "run"
    /\ trace' = trace \o Emits("run_start", Top.obj, Undefined)
    /\ stack' = SetTop([Top EXCEPT !.pc = "prep"])
    /\ UNCHANGED <<heap, outcome, nextId, pstore, sdata, calls, tasks, finished, parked, cur, sharedVars, insp>>

\* run(): warn when the node has successors, then start _run.
Run ==
    /\ stack # <<>> /\ Top.pc = "run"
    /\ trace' = (IF SuccessorsSize(heap[Top.obj].successors) > 0
                 THEN Log(Event("warn", Top.obj, "Node won't run successors. Use Flow.",
                                Undefined, UndefAction))
                 ELSE trace) \o Emits("run_start", Top.obj, Undefined)
    /\ stack' = SetTop([Top EXCEPT !.pc = "prep"])
    /\ UNCHANGED <<heap, outcome, nextId, pstore, sdata, calls, tasks, finished, parked, cur, sharedVars, insp>>

\* this._params[key] = value: the record the node refers to is written.
WriteParam(ps, obj, key, value) == [ps EXCEPT ![obj.params][key] = value]

\* A user's prep that begins by writing a field of the node's own params
\* (the key obj.writes), if it is one that does.
PrepEffect(ps, obj) ==
    IF obj.writes # "<none>" THEN WriteParam(ps, obj, obj.writes, "w") ELSE ps

\* const p = await this.prep()
Prep ==
    /\ stack # <<>> /\ Top.pc = "prep"
    /\ ~RunsAsFlow(heap[Top.obj]) /\ ~IsBatchFlow(heap[Top.obj])
    /\ IF PhaseThrows(heap[Top.obj], "prep")
       THEN /\ trace' = LogPhase("prep", Top.obj, Undefined,
                                 Event("prep", Top.obj, Undefined, Undefined, UndefAction),
                                 FALSE, Undefined)
            /\ Reject(PhaseError(heap[Top.obj], "prep"))
       ELSE /\ \E p \in heap[Top.obj].prepResults :
                  /\ trace' = LogPhase("prep", Top.obj, Undefined,
                                       Event("prep", Top.obj, Undefined, p, UndefAction),
                                       TRUE, p)
                  /\ stack' = SetTop([Top EXCEPT !.pc = "exec", !.prepRes = p,
                                                 !.currentRetry = 0])
            /\ UNCHANGED outcome
    /\ pstore' = PrepEffect(pstore, heap[Top.obj])
    /\ UNCHANGED <<heap, nextId, sdata, calls, tasks, finished, parked, cur, sharedVars, insp>>

(***************************************************************************)
(* Node._exec, the retry wrapper  (src/unnamed/part_000 42-78)             *)
(***************************************************************************)
\* The user's exec: counts the attempt on this, then throws or returns.
ExecThrows(obj) ==
    \/ obj.attemptCount + 1 <= obj.failN
    \/ PhaseThrows(obj, "exec")

ExecError(obj) ==
    [t |-> "error", msg |-> "fail", attempt |-> obj.attemptCount + 1,
     key |-> pstore[obj.params]["k2"]]

ExecResult(obj, prepRes) == [t |-> "ok", of |-> prepRes, attempt |-> obj.attemptCount + 1]

\* Flow.exec: throw new Error("Flow can't exec.")
FlowCantExec == [t |-> "error", msg |-> "Flow can't exec.", attempt |-> 0]

\* this.exec(prepRes): Flow's exec throws; a user's exec as above.
ExecMethod(obj, prepRes) ==
    IF obj.cls = "Flow" THEN [throws |-> TRUE, val |-> FlowCantExec]
    ELSE IF ExecThrows(obj) THEN [throws |-> TRUE, val |-> ExecError(obj)]
    ELSE [throws |-> FALSE, val |-> ExecResult(obj, prepRes)]

\* The user's exec counts its attempts on the object it runs on.
ExecEffect(addr) ==
    IF heap[addr].cls = "Flow" THEN heap
    ELSE [heap EXCEPT ![addr].attemptCount = @ + 1]

\* for (...; currentRetry < this.maxRetries; ...)
RetryLoopContinues(currentRetry, maxRetries) == currentRetry < maxRetries

\* A slip in the test for the last attempt: one attempt too early.
IsLastRetry_OneEarly(currentRetry, maxRetries) == currentRetry >= maxRetries - 2

\* if (currentRetry === this.maxRetries - 1)
IsLastRetry(currentRetry, maxRetries) == currentRetry = maxRetries - 1

\* One turn of the loop of Node._exec: an attempt of exec and, when it
\* throws, the catch block up to its await; or the end of the loop. For a
\* node without the retry wrapper, BaseNode._exec: one call of exec.
ExecAttempt ==
    /\ stack # <<>> /\ Top.pc = "exec"
    /\ heap[Top.obj].cls \in {"Node", "Flow"}
    /\ LET obj == heap[Top.obj]
           r == ExecMethod(obj, Top.prepRes)
           called == LogPhase("exec", Top.obj, Top.prepRes,
                              Event("exec", Top.obj, Top.prepRes, Undefined, UndefAction),
                              ~r.throws, r.val)
       IN
       IF ~HasRetryWrapper(obj)
       THEN /\ heap' = ExecEffect(Top.obj)
            /\ trace' = called
            /\ IF r.throws
               THEN Reject(r.val)
               ELSE /\ stack' = SetTop([Top EXCEPT !.pc = "post", !.execRes = r.val])
                    /\ UNCHANGED outcome
       ELSE IF RetryLoopContinues(Top.currentRetry, obj.maxRetries)
       THEN /\ heap' = ExecEffect(Top.obj)
            /\ trace' = called
            /\ UNCHANGED outcome
            /\ IF ~r.throws
               THEN stack' = SetTop([Top EXCEPT !.pc = "post", !.execRes = r.val])
               ELSE IF IsLastRetry(Top.currentRetry, obj.maxRetries)
               THEN stack' = SetTop([Top EXCEPT !.pc = "fallback", !.err = r.val])
               ELSE IF obj.wait > 0
               THEN stack' = SetTop([Top EXCEPT !.pc = "wait"])
               ELSE stack' = SetTop([Top EXCEPT !.currentRetry = @ + 1])
       ELSE \* return undefined as ExecRes
            /\ stack' = SetTop([Top EXCEPT !.pc = "post", !.execRes = Undefined])
            /\ UNCHANGED <<heap, trace, outcome>>
    /\ UNCHANGED <<nextId, pstore, sdata, calls, tasks, finished, parked, cur, sharedVars, insp>>

\* The timer of  await new Promise(resolve => setTimeout(resolve, wait * 1000))
\* fires; the loop goes on with currentRetry++.
RetryWait ==
    /\ stack # <<>> /\ Top.pc = "wait"
    /\ stack' = SetTop([Top EXCEPT !.pc = "exec", !.currentRetry = @ + 1])
    /\ UNCHANGED <<heap, trace, outcome, nextId, pstore, sdata, calls, tasks, finished, parked, cur, sharedVars, insp>>

\* A user's execFallback that throws an error of its own.
FallbackError == [t |-> "error", msg |-> "fallback failed", attempt |-> 0]

\* A default execFallback that swallows the error and returns nothing.
ExecFallback_Silent(obj, prepRes, error) ==
    IF obj.fallback = "throws" THEN [throws |-> TRUE, val |-> FallbackError]
    ELSE IF obj.fallback = "default" THEN [throws |-> FALSE, val |-> Undefined]
    ELSE [throws |-> FALSE, val |-> [t |-> "fallback", of |-> prepRes, err |-> error]]

\* execFallback(prepRes, error): Node's default re-throws the error; a user's
\* override returns a result or throws.
ExecFallback(obj, prepRes, error) ==
    IF obj.fallback = "default" THEN [throws |-> TRUE, val |-> error]
    ELSE IF obj.fallback = "throws" THEN [throws |-> TRUE, val |-> FallbackError]
    ELSE [throws |-> FALSE, val |-> [t |-> "fallback", of |-> prepRes, err |-> error]]

\* return await this.execFallback(prepRes, e as Error)
Fallback ==
    /\ stack # <<>> /\ Top.pc = "fallback"
    /\ LET r == ExecFallback(heap[Top.obj], Top.prepRes, Top.err) IN
       /\ trace' = Log(Event("execFallback", Top.obj, Top.prepRes, Top.err, UndefAction))
       /\ IF r.throws
          THEN Reject(r.val)
          ELSE /\ stack' = SetTop([Top EXCEPT !.pc = "post", !.execRes = r.val])
               /\ UNCHANGED outcome
    /\ UNCHANGED <<heap, nextId, pstore, sdata, calls, tasks, finished, parked, cur, sharedVars, insp>>

\* const a = await this.post(p, e); return a.  The user's post counts the
\* run in the data payload of the node's context and picks the action, or
\* throws.
Post ==
    /\ stack # <<>> /\ Top.pc = "post"
    /\ ~RunsAsFlow(heap[Top.obj])
    /\ heap[Top.obj].cls \in {"Node", "Flow"}
    /\ IF PhaseThrows(heap[Top.obj], "post")
       THEN /\ trace' = LogPhase("post", Top.obj, [prepRes |-> Top.prepRes, execRes |-> Top.execRes],
                                 Event("post", Top.obj, Top.prepRes, Top.execRes, UndefAction),
                                 FALSE, Undefined)
            /\ Reject(PhaseError(heap[Top.obj], "post"))
            /\ UNCHANGED sdata
       ELSE /\ \E a \in heap[Top.obj].postActions :
                  /\ trace' = LogPhase("post", Top.obj, [prepRes |-> Top.prepRes, execRes |-> Top.execRes],
                                       Event("post", Top.obj, Top.prepRes, Top.execRes, a),
                                       TRUE, BoxAction(a))
                  /\ stack' = SetTop([Top EXCEPT !.pc = "ret", !.ret = a])
            /\ sdata' = [sdata EXCEPT ![heap[Top.obj].shared].count = @ + 1]
            /\ UNCHANGED outcome
    /\ UNCHANGED <<heap, nextId, pstore, calls, tasks, finished, parked, cur, sharedVars, insp>>

\* A run() that forgets the action post returned.
RunReturn_DropsAction ==
    /\ Len(stack) = 1 /\ Top.pc = "ret"
    /\ outcome' = [st |-> "resolved", val |-> UndefAction]
    /\ trace' = trace \o Emits("run_end", Top.obj, BoxAction(Top.ret))
    /\ stack' = <<>>
    /\ UNCHANGED <<heap, nextId, pstore, sdata, calls, tasks, finished, parked, cur, sharedVars, insp>>

\* The promise of the outermost run() resolves with the action.
RunReturn ==
    /\ Len(stack) = 1 /\ Top.pc = "ret"
    /\ outcome' = [st |-> "resolved", val |-> Top.ret]
    /\ trace' = trace \o Emits("run_end", Top.obj, BoxAction(Top.ret))
    /\ stack' = <<>>
    /\ UNCHANGED <<heap, nextId, pstore, sdata, calls, tasks, finished, parked, cur, sharedVars, insp>>

\* Neither the locker nor the emitter is used while a node runs, and nobody
\* aborts.
LockIdle ==
    /\ locks = LocksInit
    /\ lockPc = [c \in Callers |-> "idle"]
    /\ lockRes = [c \in Callers |-> "r1"]
    /\ lockCall = [c \in Callers |-> NoWithLock]
    /\ ctx = CtxIdle

\* The context and the parameter record each constructed node has of its
\* own, and after them those of the caller.
StoresInit(n) ==
    /\ pstore = [i \in 1..(n + 1) |-> IF i <= n THEN EmptyParams ELSE CallerParams]
    /\ sdata = [i \in 1..(n + 1) |-> NewSharedData]

\* A standalone node, constructed with any retry policy, any failure
\* pattern of its exec and any execFallback, with or without an outgoing
\* edge; the caller sets its context and calls run().
NodeInit ==
    /\ LockIdle
    /\ \E k \in 0..MaxRetries, w \in WaitSeconds, f \in 0..MaxRetries,
          fb \in {"default", "value", "throws"}, edge \in BOOLEAN :
          heap = << [NewNode("Node", 1, k, w, f, fb) EXCEPT
                        !.successors = IF edge THEN [NoSuccessors EXCEPT !["default"] = 2]
                                       ELSE NoSuccessors,
                        !.shared = 3,
                        !.prepResults = PrepResults,
                        !.postActions = ActionResults],
                    PlainNode(2) >>
    /\ StoresInit(2)
    /\ stack = << NewFrame(1, "run") >>
    /\ trace = <<>>
    /\ outcome = [st |-> "pending"]
    /\ nextId = 3
    /\ calls = 1
    /\ tasks = <<>>
    /\ finished = <<>>
    /\ parked = NoneParked
    /\ cur = 0
    /\ insp = InspIdle

NodeNext ==
    \/ Run
    \/ Prep
    \/ ExecAttempt
    \/ RetryWait
    \/ Fallback
    \/ Post
    \/ RunReturn

SpecNode == NodeInit /\ [][NodeNext]_vars

(***************************************************************************)
(* BaseNode.getNextNode, clone, setParams, setShared                       *)
(* (src/src/BaseNode.ts 136-149, 186-219)                                  *)
(***************************************************************************)
\* A lookup that follows the default edge whatever the action.
NormalizeAction_AlwaysDefault(action) == "default"

\* const nextAction = action || "default"
NormalizeAction(action) == IF action \in {UndefAction, ""} THEN "default" ELSE action

\* A getNextNode that looks the action up as given, undefined aside.
GetNextNode_Raw(obj, action) ==
    LET next == obj.successors[IF action = UndefAction THEN "default" ELSE action]
    IN  [node |-> next,
         warn |-> next = 0 /\ SuccessorsSize(obj.successors) > 0]

\* A getNextNode that, finding no successor, hands out the node itself.
GetNextNode_NeverEnds(obj, action) ==
    LET next == obj.successors[NormalizeAction(action)]
    IN  [node |-> IF next = 0 THEN obj.tmpl ELSE next, warn |-> FALSE]

\* A getNextNode that warns whenever it finds no successor.
GetNextNode_WarnsAtEveryEnd(obj, action) ==
    LET next == obj.successors[NormalizeAction(action)]
    IN  [node |-> next, warn |-> next = 0]

\* getNextNode(action): the successor (0: undefined) and whether it warns.
GetNextNode(obj, action) ==
    LET next == obj.successors[NormalizeAction(action)]
    IN  [node |-> next,
         warn |-> next = 0 /\ SuccessorsSize(obj.successors) > 0]

\* A clone() that hands out the node itself.
CloneOf_Same(h, ps, addr, newId) == [heap |-> h, pstore |-> ps, addr |-> addr]

\* A clone() that stops after Object.assign: the new object refers to the
\* parameter record of the node it was made from.
CloneOf_SharesParams(h, ps, addr, newId) ==
    [heap |-> Append(h, [h[addr] EXCEPT !.id = newId]),
     pstore |-> ps,
     addr |-> Len(h) + 1]

\* clone(): a new object with the own properties of the node at addr, a new
\* id, a copy of its parameter record and a new Map with the same successor
\* entries (the successors themselves are shared). uuid() is taken to return
\* an id it has not returned before.
CloneOf(h, ps, addr, newId) ==
    [heap |-> Append(h, [h[addr] EXCEPT !.id = newId, !.params = Len(ps) + 1]),
     pstore |-> Append(ps, ps[h[addr].params]),
     addr |-> Len(h) + 1]

\* setParams(params): the node refers to the caller's record.
SetParams(h, addr, p) == [h EXCEPT ![addr].params = p]

\* A setShared that leaves the node the context it has.
SetShared_Keeps(h, addr, s) == h

\* setShared(shared)
SetShared(h, addr, s) == [h EXCEPT ![addr].shared = s]

(***************************************************************************)
(* Building a graph: BaseNode.on, BaseNode.next                            *)
(* (src/src/BaseNode.ts 158-177)                                           *)
(***************************************************************************)
\* The nodes the caller has constructed and connects.
BuildNodes == {1, 2, 3}

\* One call of on or next by the caller: the method, its receiver, the
\* action and the node passed, the value returned, and whether the call
\* went through a logger warning.
BuildEvent(ev, recv, action, node, ret, warned) ==
    [ev |-> ev, obj |-> recv, a |-> action, b |-> node, ret |-> ret, warned |-> warned]

\* on's test: this._successors.has(action)
Overwrites(node, action) == node.successors[action] # 0

\* recv.on(action, node): warn when the action has a successor, set the
\* entry, return this.
OnCall(recv, action, node) ==
    /\ Len(trace) < MaxBuildCalls
    /\ heap' = [heap EXCEPT ![recv] = On(@, action, node)]
    /\ trace' = Log(BuildEvent("on", recv, action, node, recv, Overwrites(heap[recv], action)))
    /\ outcome' = [st |-> "returned", val |-> recv]
    /\ UNCHANGED <<stack, nextId, pstore, sdata, calls, tasks, finished, parked, cur, sharedVars, insp>>

\* A next that returns the node it was called on, as on does.
NextCall_ReturnsThis(recv, node) ==
    /\ Len(trace) < MaxBuildCalls
    /\ heap' = [heap EXCEPT ![recv] = On(@, "default", node)]
    /\ trace' = Log(BuildEvent("next", recv, "default", node, recv,
                               Overwrites(heap[recv], "default")))
    /\ outcome' = [st |-> "returned", val |-> recv]
    /\ UNCHANGED <<stack, nextId, pstore, sdata, calls, tasks, finished, parked, cur, sharedVars, insp>>

\* recv.next(node): this.on("default", node); return node.
NextCall(recv, node) ==
    /\ Len(trace) < MaxBuildCalls
    /\ heap' = [heap EXCEPT ![recv] = On(@, "default", node)]
    /\ trace' = Log(BuildEvent("next", recv, "default", node, node,
                               Overwrites(heap[recv], "default")))
    /\ outcome' = [st |-> "returned", val |-> node]
    /\ UNCHANGED <<stack, nextId, pstore, sdata, calls, tasks, finished, parked, cur, sharedVars, insp>>

\* Three constructed nodes without edges; nothing runs.
BuildInit ==
    /\ LockIdle
    /\ heap = [n \in BuildNodes |-> PlainNode(n)]
    /\ StoresInit(3)
    /\ stack = <<>>
    /\ trace = <<>>
    /\ outcome = [st |-> "pending"]
    /\ nextId = 4
    /\ calls = 0
    /\ tasks = <<>>
    /\ finished = <<>>
    /\ parked = NoneParked
    /\ cur = 0
    /\ insp = InspIdle

BuildNext ==
    \/ \E recv \in BuildNodes, action \in Actions, node \in BuildNodes : OnCall(recv, action, node)
    \/ \E recv \in BuildNodes, node \in BuildNodes : NextCall(recv, node)

SpecBuild == BuildInit /\ [][BuildNext]_vars

(***************************************************************************)
(* Cloning a node and writing to the clone or to the node it came from     *)
(* (src/src/BaseNode.ts 207-219)                                           *)
(***************************************************************************)
\* The values a caller or a node writes into a parameter record.
WrittenValues == {"w"}

\* node.clone() called by the caller: the clone is a new object on the heap.
CloneCall(addr) ==
    /\ calls < MaxCloneCalls
    /\ LET c == CloneOf(heap, pstore, addr, nextId) IN
       /\ heap' = c.heap
       /\ pstore' = c.pstore
       /\ trace' = Log(BuildEvent("clone", addr, "default", 0, c.addr, FALSE))
       /\ outcome' = [st |-> "returned", ev |-> "clone", obj |-> addr, val |-> c.addr]
    /\ nextId' = nextId + 1
    /\ calls' = calls + 1
    /\ UNCHANGED <<stack, sdata, tasks, finished, parked, cur, sharedVars, insp>>

\* recv.on(action, node) on a node or on a clone.
CloneOn(recv, action, node) ==
    /\ calls < MaxCloneCalls
    /\ heap' = [heap EXCEPT ![recv] = On(@, action, node)]
    /\ outcome' = [st |-> "returned", ev |-> "on", obj |-> recv, val |-> recv]
    /\ calls' = calls + 1
    /\ UNCHANGED <<stack, trace, nextId, pstore, sdata, tasks, finished, parked, cur, sharedVars, insp>>

\* A node, or a clone, adds or overwrites a field of its parameter record.
ParamWrite(addr, key, value) ==
    /\ calls < MaxCloneCalls
    /\ pstore' = WriteParam(pstore, heap[addr], key, value)
    /\ outcome' = [st |-> "returned", ev |-> "param", obj |-> addr, val |-> addr]
    /\ calls' = calls + 1
    /\ UNCHANGED <<heap, stack, trace, nextId, sdata, tasks, finished, parked, cur, sharedVars, insp>>

\* Three constructed nodes, the first with or without an edge and with or
\* without parameters; nothing runs.
CloneInit ==
    /\ LockIdle
    /\ \E edge \in BOOLEAN :
          heap = [n \in BuildNodes |->
                    IF n = 1 /\ edge THEN On(PlainNode(1), "default", 2) ELSE PlainNode(n)]
    /\ \E p \in {EmptyParams, TemplateParams} :
          pstore = [n \in BuildNodes |-> IF n = 1 THEN p ELSE EmptyParams]
    /\ sdata = [n \in BuildNodes |-> NewSharedData]
    /\ stack = <<>>
    /\ trace = <<>>
    /\ outcome = [st |-> "pending"]
    /\ nextId = 4
    /\ calls = 0
    /\ tasks = <<>>
    /\ finished = <<>>
    /\ parked = NoneParked
    /\ cur = 0
    /\ insp = InspIdle

CloneNext ==
    \/ \E addr \in DOMAIN heap : CloneCall(addr)
    \/ \E recv \in DOMAIN heap, action \in {"default", "go"}, node \in {2, 3} :
          CloneOn(recv, action, node)
    \/ \E addr \in DOMAIN heap, key \in ParamKeys, value \in WrittenValues :
          ParamWrite(addr, key, value)

SpecClone == CloneInit /\ [][CloneNext]_vars

(***************************************************************************)
(* Shared: abort, on, emit  (src/src/Shared.ts 137-232)                    *)
(***************************************************************************)
\* A constructor that makes a controller of its own whatever it is given.
NewController_AlwaysOwn(s, parent) == s

\* constructor: this.abortController = parentAbortController || new AbortController()
\* (parent 0: no controller was passed).
NewController(s, parent) == IF parent # 0 THEN parent ELSE s

\* this.abortSignal.aborted, as read through context s.
Aborted(s) == ctx.aborted[ctx.controller[s]]

\* What a node reads from this._shared.abortSignal.aborted.
NodeSeesAborted(n) == Aborted(heap[n].shared)

\* abortController.abort(): the signal of the controller is aborted from
\* now on (an AbortSignal has no way back).
AbortOf(aborted, c) == [aborted EXCEPT ![c] = TRUE]

\* What a listener does when it is called: it returns, it throws at once,
\* it returns a promise that rejects, or it calls abort() on its context and
\* returns.
ListenerKinds == {"returns", "throws", "rejects", "aborts"}

ListenersRegistered ==
    LET RECURSIVE Sum(_)
        Sum(S) == IF S = {} THEN 0
                  ELSE LET x == CHOOSE y \in S : TRUE
                       IN  Len(ctx.listeners[x]) + Sum(S \ {x})
    IN  Sum(Contexts)

\* shared.on(eventName, listener): the listener goes to the end of the list.
SharedOn(s, kind) ==
    /\ ListenersRegistered < MaxEmitListeners
    /\ ctx' = [ctx EXCEPT !.listeners[s] =
                   Append(@, [id |-> ListenersRegistered + 1, does |-> kind])]
    /\ UNCHANGED <<locks, lockPc, lockRes, lockCall, engineVars>>

\* shared.abort(reason): if the signal is not aborted yet, abort the
\* controller.
Abort(s) ==
    /\ ctx' = [ctx EXCEPT !.aborted = IF Aborted(s) THEN @ ELSE AbortOf(@, ctx.controller[s]),
                          !.abortCalls = @ \cup {s}]
    /\ UNCHANGED <<locks, lockPc, lockRes, lockCall, engineVars>>

\* An emit that goes on through its list after an abort.
BreaksOnAbort_Never(aborted) == FALSE

\* emit's test after each listener:  if (this.abortSignal.aborted) break
BreaksOnAbort(aborted) == aborted

\* An emit without try/catch around the listener call.
OnListenerError_Rethrows == "throw"

\* emit's catch block around  await listener(...args) : the error is logged
\* with logger.error and the loop goes on.
OnListenerError == "log"

\* One call of emit on context s: the copy of the listener list it iterates
\* over, the listener it awaits (0: none), the listeners it has called, each
\* with the value of the abort signal at the call, and how its promise
\* stands.
NewEmit(n, s, list) ==
    [n |-> n, shared |-> s, list |-> list, at |-> 0, invoked |-> <<>>,
     st |-> "running", startedAborted |-> FALSE]

\* The listener awaited by emit e has thrown or rejected: given the state
\* of the emit, the abort flags and the error log, what the catch block
\* leaves (the emit is over when its st is no longer "running").
Failed(e, l, ab, errs) ==
    IF OnListenerError = "log"
    THEN [emit |-> e, aborted |-> ab, errors |-> Append(errs, [emit |-> e.n, id |-> l.id])]
    ELSE [emit |-> [e EXCEPT !.st = "rejected", !.at = 0], aborted |-> ab, errors |-> errs]

\* emit's loop from the call of listener i to the next await or to its end:
\* the listener is called; one that throws at once is handled at once and,
\* unless the signal is aborted, the loop calls the next one; any other
\* listener returns something to await.
RECURSIVE Deliver(_, _, _, _)
Deliver(e, i, ab, errs) ==
    IF i > Len(e.list)
    THEN [emit |-> [e EXCEPT !.st = "resolved", !.at = 0], aborted |-> ab, errors |-> errs]
    ELSE LET l == e.list[i]
             c == ctx.controller[e.shared]
             called == [e EXCEPT !.invoked = Append(@, [id |-> l.id, aborted |-> ab[c]])]
             ab1 == IF l.does = "aborts" THEN AbortOf(ab, c) ELSE ab
         IN  IF l.does = "throws"
             THEN LET f == Failed(called, l, ab1, errs) IN
                  IF f.emit.st # "running" THEN f
                  ELSE IF BreaksOnAbort(ab1[c])
                  THEN [f EXCEPT !.emit.st = "resolved", !.emit.at = 0]
                  ELSE Deliver(f.emit, i + 1, ab1, f.errors)
             ELSE [emit |-> [called EXCEPT !.at = i], aborted |-> ab1, errors |-> errs]

\* emit(eventName, ...args) up to its first await: nothing is called when
\* the signal is aborted; otherwise the list is copied and the loop starts.
EmitStart(s) ==
    /\ Len(ctx.emits) < MaxEmits
    /\ LET n == Len(ctx.emits) + 1 IN
       IF Aborted(s)
       THEN ctx' = [ctx EXCEPT !.emits = Append(@, [NewEmit(n, s, ctx.listeners[s]) EXCEPT
                                                      !.st = "resolved", !.startedAborted = TRUE])]
       ELSE LET d == Deliver(NewEmit(n, s, ctx.listeners[s]), 1, ctx.aborted, ctx.errors)
            IN  ctx' = [ctx EXCEPT !.emits = Append(@, d.emit),
                                   !.aborted = d.aborted,
                                   !.errors = d.errors]
    /\ UNCHANGED <<locks, lockPc, lockRes, lockCall, engineVars>>

\* The listener that emit k awaits has settled: a rejection is handled by
\* the catch block, then the signal is tested and the loop goes on.
EmitResume(k) ==
    /\ k \in DOMAIN ctx.emits
    /\ ctx.emits[k].st = "running" /\ ctx.emits[k].at # 0
    /\ LET e == ctx.emits[k]
           l == e.list[e.at]
           f == IF l.does = "rejects" THEN Failed(e, l, ctx.aborted, ctx.errors)
                ELSE [emit |-> e, aborted |-> ctx.aborted, errors |-> ctx.errors]
           d == IF f.emit.st # "running" THEN f
                ELSE IF BreaksOnAbort(Aborted(e.shared))
                THEN [f EXCEPT !.emit.st = "resolved", !.emit.at = 0]
                ELSE Deliver(f.emit, e.at + 1, f.aborted, f.errors)
       IN  ctx' = [ctx EXCEPT !.emits[k] = d.emit, !.aborted = d.aborted, !.errors = d.errors]
    /\ UNCHANGED <<locks, lockPc, lockRes, lockCall, engineVars>>

\* Two contexts, the second constructed with the first one's controller or
\* without one, and a node holding each; nothing runs.
EmitInit ==
    /\ locks = LocksInit
    /\ lockPc = [c \in Callers |-> "idle"]
    /\ lockRes = [c \in Callers |-> "r1"]
    /\ lockCall = [c \in Callers |-> NoWithLock]
    /\ \E parent \in {0, 1} :
          ctx = [CtxIdle EXCEPT !.parent = [s \in Contexts |-> IF s = 1 THEN 0 ELSE parent],
                                !.controller = [s \in Contexts |->
                                    IF s = 1 THEN NewController(1, 0)
                                    ELSE NewController(s, parent)]]
    /\ heap = [n \in Contexts |-> [PlainNode(n) EXCEPT !.shared = n]]
    /\ pstore = [n \in Contexts |-> EmptyParams]
    /\ sdata = [n \in Contexts |-> NewSharedData]
    /\ stack = <<>>
    /\ trace = <<>>
    /\ outcome = [st |-> "pending"]
    /\ nextId = 3
    /\ calls = 0
    /\ tasks = <<>>
    /\ finished = <<>>
    /\ parked = NoneParked
    /\ cur = 0
    /\ insp = InspIdle

EmitNext ==
    \/ \E s \in Contexts, kind \in ListenerKinds : SharedOn(s, kind)
    \/ \E s \in Contexts : Abort(s)
    \/ \E s \in Contexts : EmitStart(s)
    \/ \E k \in 1..MaxEmits : EmitResume(k)

SpecEmit == EmitInit /\ [][EmitNext]_vars

(***************************************************************************)
(* Shared.logger and the 'log' event  (src/src/Shared.ts 27-59, 234-282)   *)
(* for the context 1. ctx.listeners[1] are the listeners of the event      *)
(* 'log'; ctx.delivered holds the listener calls made, each with the value *)
(* of the abort signal at the call; ctx.logQueue holds the emit calls      *)
(* suspended at an await, in the order of their awaits. The listeners      *)
(* settle at once, so the continuations run in that order (the microtask   *)
(* queue); the caller's calls may come between any two of them.            *)
(***************************************************************************)
\* A _log that is silent for every level once the context is aborted.
SkipsLog_AlsoErrors(aborted, level) == aborted

\* _log's first test:  if (this.abortSignal.aborted && level !== "error") return
SkipsLog(aborted, level) == aborted /\ level # "error"

\* One call of a log listener: who was called, through which of the three
\* hooks, for which level, for which logger call of the caller (0: a log
\* made by emit's catch block), and the abort signal at the call.
Delivery(to, via, level, root, aborted) ==
    [to |-> to, via |-> via, level |-> level, root |-> root, aborted |-> aborted]

\* logListeners.get(level).forEach(...) and allLogsListeners.forEach(...):
\* every listener is called; what it throws or rejects with goes to
\* console.error and nowhere else.
HookDeliveries(c, level, root) ==
    LET ab == c.aborted[c.controller[1]] IN
    {Delivery(c.logListeners[level][i], "level", level, root, ab) :
        i \in 1..Len(c.logListeners[level])} \cup
    {Delivery(c.allLogsListeners[i], "all", level, root, ab) :
        i \in 1..Len(c.allLogsListeners)}

RECURSIVE LogOf(_, _, _, _)
RECURSIVE EmitLog(_, _, _, _)
RECURSIVE LogDeliver(_, _, _)

\* _log(level, message): nothing when skipped; else the level listeners,
\* the catch-all listeners, then this.emit("log", level, message) up to its
\* first await (depth: how many catch blocks of emit the call is inside).
LogOf(c, level, depth, root) ==
    IF SkipsLog(c.aborted[c.controller[1]], level) THEN c
    ELSE EmitLog([c EXCEPT !.delivered = @ \cup HookDeliveries(c, level, root)], level, depth, root)

\* emit("log", level, ...) up to its first await: nothing when aborted
\* (the logger.debug it makes then is skipped by _log); else the list is
\* copied and the loop starts. The chain of emits made from catch blocks is
\* followed as far as MaxLogDepth.
EmitLog(c, level, depth, root) ==
    IF c.aborted[c.controller[1]] \/ depth > MaxLogDepth THEN c
    ELSE LogDeliver([c EXCEPT !.logEmits = Append(@,
                        [level |-> level, list |-> c.listeners[1], at |-> 0,
                         st |-> "running", depth |-> depth, root |-> root,
                         invoked |-> <<>>])],
                    Len(c.logEmits) + 1, 1)

\* The loop of emit call k from listener i to the next await or to the end:
\* a listener that throws at once is caught, the error is logged with
\* logger.error, that is _log("error", ...), the signal is tested and the
\* loop goes on; any other listener returns something to await.
LogDeliver(c, k, i) ==
    LET e == c.logEmits[k] IN
    IF i > Len(e.list) THEN [c EXCEPT !.logEmits[k].st = "resolved", !.logEmits[k].at = 0]
    ELSE LET l == e.list[i]
             called == [c EXCEPT !.delivered = @ \cup {Delivery(l.id, "log", e.level, e.root,
                                                               c.aborted[c.controller[1]])},
                                 !.logEmits[k].invoked = Append(@, l.id)]
         IN  IF l.does = "throws"
             THEN LET logged == LogOf(called, "error", e.depth + 1, 0) IN
                  IF BreaksOnAbort(logged.aborted[logged.controller[1]])
                  THEN [logged EXCEPT !.logEmits[k].st = "resolved", !.logEmits[k].at = 0]
                  ELSE LogDeliver(logged, k, i + 1)
             ELSE [called EXCEPT !.logEmits[k].at = i, !.logQueue = Append(@, k)]

\* The listeners are registered before the logger is used and before
\* anybody aborts: first the level listeners, then the catch-all listeners,
\* then the subscribers of 'log' (the three lists are apart, so the order
\* between them does not show).
BeforeLogging == ctx.logCalls = <<>> /\ ctx.abortCalls = {}

\* The order in which the caller registers the listeners of the levels.
LevelRank(level) == CASE level = "info" -> 1 [] level = "warn" -> 2 [] level = "error" -> 3

\* logger.on(level, listener)
LoggerOn(level) ==
    /\ BeforeLogging /\ ctx.allLogsListeners = <<>> /\ ctx.listeners[1] = <<>>
    /\ \A other \in LogLevels :
          LevelRank(other) > LevelRank(level) => ctx.logListeners[other] = <<>>
    /\ ctx.logIds < MaxLogListeners
    /\ ctx' = [ctx EXCEPT !.logListeners[level] = Append(@, ctx.logIds + 1),
                          !.logIds = @ + 1]
    /\ UNCHANGED <<locks, lockPc, lockRes, lockCall, engineVars>>

\* logger.onAll(listener)
LoggerOnAll ==
    /\ BeforeLogging /\ ctx.listeners[1] = <<>>
    /\ ctx.logIds < MaxLogListeners
    /\ ctx' = [ctx EXCEPT !.allLogsListeners = Append(@, ctx.logIds + 1),
                          !.logIds = @ + 1]
    /\ UNCHANGED <<locks, lockPc, lockRes, lockCall, engineVars>>

\* shared.on("log", listener): a subscriber of the 'log' event, which
\* returns, throws at once or returns a promise that rejects.
LogEventOn(kind) ==
    /\ BeforeLogging
    /\ Len(ctx.listeners[1]) < MaxLogSubscribers
    /\ ctx' = [ctx EXCEPT !.listeners[1] = Append(@, [id |-> ctx.logIds + 1, does |-> kind]),
                          !.logIds = @ + 1]
    /\ UNCHANGED <<locks, lockPc, lockRes, lockCall, engineVars>>

\* logger.debug / info / warn / error (message) called by the caller. Until
\* the context is aborted the caller logs when the deliveries of the logs
\* before have been made; after the abort, at any time.
LoggerCall(level) ==
    /\ Len(ctx.logCalls) < MaxLogCalls
    /\ ctx.logQueue = <<>> \/ Aborted(1)
    /\ ctx' = LogOf([ctx EXCEPT !.logCalls = Append(@, [level |-> level,
                                                        aborted |-> Aborted(1),
                                                        known |-> ctx.logIds])],
                    level, 0, Len(ctx.logCalls) + 1)
    /\ UNCHANGED <<locks, lockPc, lockRes, lockCall, engineVars>>

\* The listener that the oldest suspended emit call of 'log' awaits has
\* settled: a rejection is caught and logged with logger.error, the signal
\* is tested, the loop goes on.
LogEmitResume ==
    /\ ctx.logQueue # <<>>
    /\ LET k == Head(ctx.logQueue)
           e == ctx.logEmits[k]
           l == e.list[e.at]
           resumed == [ctx EXCEPT !.logQueue = Tail(@)]
           logged == IF l.does = "rejects" THEN LogOf(resumed, "error", e.depth + 1, 0)
                     ELSE resumed
       IN  ctx' = IF BreaksOnAbort(logged.aborted[logged.controller[1]])
                  THEN [logged EXCEPT !.logEmits[k].st = "resolved", !.logEmits[k].at = 0]
                  ELSE LogDeliver(logged, k, e.at + 1)
    /\ UNCHANGED <<locks, lockPc, lockRes, lockCall, engineVars>>

\* shared.abort(reason) with its log: if the signal is not aborted yet,
\* logger.info("[Shared] Abort requested ..."), then abort the controller.
AbortLogged ==
    /\ ctx' = IF Aborted(1) THEN [ctx EXCEPT !.abortCalls = @ \cup {1}]
              ELSE LET logged == LogOf(ctx, "info", 0, 0) IN
                   [logged EXCEPT !.aborted = AbortOf(@, logged.controller[1]),
                                  !.abortCalls = @ \cup {1}]
    /\ UNCHANGED <<locks, lockPc, lockRes, lockCall, engineVars>>

\* A context nobody has aborted, listened to or logged on.
LogInit ==
    /\ locks = LocksInit
    /\ lockPc = [c \in Callers |-> "idle"]
    /\ lockRes = [c \in Callers |-> "r1"]
    /\ lockCall = [c \in Callers |-> NoWithLock]
    /\ ctx = CtxIdle
    /\ heap = [n \in Contexts |-> [PlainNode(n) EXCEPT !.shared = n]]
    /\ pstore = [n \in Contexts |-> EmptyParams]
    /\ sdata = [n \in Contexts |-> NewSharedData]
    /\ stack = <<>>
    /\ trace = <<>>
    /\ outcome = [st |-> "pending"]
    /\ nextId = 3
    /\ calls = 0
    /\ tasks = <<>>
    /\ finished = <<>>
    /\ parked = NoneParked
    /\ cur = 0
    /\ insp = InspIdle

LogNext ==
    \/ \E level \in LogLevels : LoggerOn(level)
    \/ LoggerOnAll
    \/ \E kind \in {"returns", "throws", "rejects"} : LogEventOn(kind)
    \/ \E level \in LogLevels : LoggerCall(level)
    \/ LogEmitResume
    \/ AbortLogged

SpecLog == LogInit /\ [][LogNext]_vars

(***************************************************************************)
(* Flow  (src/unnamed/part_000 239-308)                                    *)
(***************************************************************************)
\* The node runs the Flows have started so far (the model stops a traversal
\* that would start more than MaxRuns, over all calls of run()).
RunsStarted == Cardinality({i \in DOMAIN trace : trace[i].ev = "prep" /\ trace[i].by # 0})

ClonesMade == Cardinality({a \in DOMAIN heap : heap[a].tmpl # a})

MayStartRun == RunsStarted < MaxRuns /\ ClonesMade < MaxRuns

\* Flow._run: const pr = await this.prep()
FlowPrep ==
    /\ stack # <<>> /\ Top.pc = "prep"
    /\ RunsAsFlow(heap[Top.obj])
    /\ \E p \in heap[Top.obj].prepResults :
          /\ trace' = LogPhase("prep", Top.obj, Undefined,
                               Event("prep", Top.obj, Undefined, p, UndefAction), TRUE, p)
          /\ stack' = SetTop([Top EXCEPT !.pc = "orchestrate", !.prepRes = p])
    /\ UNCHANGED <<heap, outcome, nextId, pstore, sdata, calls, tasks, finished, parked, cur, sharedVars, insp>>

\* A wrapper of _orchestrate that hands the params it was called with on
\* to the method it wraps.
PassedOn_Always(flow, p) == p

\* The params the original _orchestrate is called with (0: none) when the
\* Flow's _run calls this._orchestrate(p). The Inspector's wrapper calls
\* o_orchestrate.call(this), without the params.
PassedOn(flow, p) == IF flow.wraps > 0 THEN 0 ELSE p

\* const p = params || this._params
OrchestrateParams(frame) ==
    IF PassedOn(heap[frame.obj], frame.p) # 0
    THEN PassedOn(heap[frame.obj], frame.p)
    ELSE heap[frame.obj].params

\* The argument of a call of _orchestrate, as a snapshot shows it.
ParamsArg(ps, p) == IF p # 0 THEN ps[p] ELSE Undefined

\* What follows the return of _orchestrate in the _run that called it:
\* Flow's post, the next turn of BatchFlow's loop, or (ParallelBatchFlow)
\* nothing more than the promise resolving.
AfterOrchestrate(obj) ==
    IF obj.cls = "Flow" THEN "post"
    ELSE IF obj.cls = "BatchFlow" THEN "loop"
    ELSE "done"

\* What _orchestrate does with the node it runs next: clone it, set the
\* Flow's parameters and context on the clone.
Prepared(frame, target) ==
    LET flow == heap[frame.obj]
        c == CloneOf(heap, pstore, target, nextId)
    IN  [heap |-> SetShared(SetParams(c.heap, c.addr, OrchestrateParams(frame)),
                            c.addr, flow.shared),
         pstore |-> c.pstore,
         addr |-> c.addr]

\* Flow._orchestrate up to its first  await current._run() : the clone of
\* start, p = params || this._params, the first turn of the loop.
OrchestrateStart ==
    /\ stack # <<>> /\ Top.pc = "orchestrate"
    /\ MayStartRun
    /\ LET c == Prepared(Top, heap[Top.obj].start) IN
       /\ heap' = c.heap
       /\ pstore' = c.pstore
       /\ stack' = Append(SetTop([Top EXCEPT !.pc = "awaiting"]), NewFrame(c.addr, "prep"))
       /\ trace' = trace \o Emits("orchestrate_start", Top.obj, ParamsArg(pstore, Top.p))
                         \o EmitsOf("run_start", c.addr, c.heap[c.addr],
                                    c.pstore[c.heap[c.addr].params], Undefined)
    /\ nextId' = nextId + 1
    /\ UNCHANGED <<outcome, sdata, calls, tasks, finished, parked, cur, sharedVars, insp>>

\* Flow._orchestrate from the return of  await current._run()  to the next
\* one, or to the end of the loop: getNextNode on the node that ran, clone.
OrchestrateNext ==
    /\ Len(stack) >= 2 /\ Top.pc = "ret"
    /\ stack[Len(stack) - 1].pc = "awaiting"
    /\ LET flowFrame == stack[Len(stack) - 1]
           next == GetNextNode(heap[Top.obj], Top.ret)
           below == SubSeq(stack, 1, Len(stack) - 2)
           returned == trace \o Emits("run_end", Top.obj, BoxAction(Top.ret)) \o
                       (IF next.warn
                        THEN << Event("warn", Top.obj, "Flow ends: action not found",
                                      Undefined, Top.ret) >>
                        ELSE <<>>)
       IN
       /\ IF next.node # 0
          THEN /\ MayStartRun
               /\ LET c == Prepared(flowFrame, next.node) IN
                  /\ heap' = c.heap
                  /\ pstore' = c.pstore
                  /\ stack' = below \o << flowFrame, NewFrame(c.addr, "prep") >>
                  /\ trace' = returned \o EmitsOf("run_start", c.addr, c.heap[c.addr],
                                                  c.pstore[c.heap[c.addr].params], Undefined)
               /\ nextId' = nextId + 1
          ELSE /\ stack' = Append(below, [flowFrame EXCEPT
                                               !.pc = AfterOrchestrate(heap[flowFrame.obj])])
               /\ trace' = returned \o Emits("orchestrate_end", flowFrame.obj, Undefined)
               /\ UNCHANGED <<heap, pstore, nextId>>
    /\ UNCHANGED <<outcome, sdata, calls, tasks, finished, parked, cur, sharedVars, insp>>

\* Flow._run: const a = await this.post(pr, undefined); return a
FlowPost ==
    /\ stack # <<>> /\ Top.pc = "post"
    /\ RunsAsFlow(heap[Top.obj]) \/ IsBatchFlow(heap[Top.obj])
    /\ \E a \in heap[Top.obj].postActions :
          /\ trace' = LogPhase("post", Top.obj, [prepRes |-> Top.prepRes, execRes |-> Undefined],
                               Event("post", Top.obj, Top.prepRes, Undefined, a),
                               TRUE, BoxAction(a))
          /\ stack' = SetTop([Top EXCEPT !.pc = "ret", !.ret = a])
    /\ UNCHANGED <<heap, outcome, nextId, pstore, sdata, calls, tasks, finished, parked, cur, sharedVars, insp>>

\* A caller calls exec(prepRes) on the node itself instead of run().
ExecDirect ==
    /\ stack # <<>> /\ Top.pc = "execDirect"
    /\ LET r == ExecMethod(heap[Top.obj], Undefined) IN
       /\ outcome' = [st |-> IF r.throws THEN "rejected" ELSE "resolved", val |-> r.val]
       /\ heap' = ExecEffect(Top.obj)
    /\ stack' = <<>>
    /\ UNCHANGED <<trace, nextId, pstore, sdata, calls, tasks, finished, parked, cur, sharedVars, insp>>

\* A Flow over one of the graphs; the caller sets its context and its
\* parameters and calls run() (or, wrongly, exec).
FlowInit ==
    /\ LockIdle
    /\ \E g \in GraphNames, call \in {"run", "execDirect"} :
          LET n == Len(GraphHeap(g)) IN
          /\ heap = [GraphHeap(g) EXCEPT ![1].params = n + 1, ![1].shared = n + 1]
          /\ StoresInit(n)
          /\ stack = << NewFrame(1, call) >>
          /\ nextId = n + 1
    /\ trace = <<>>
    /\ outcome = [st |-> "pending"]
    /\ calls = 1
    /\ tasks = <<>>
    /\ finished = <<>>
    /\ parked = NoneParked
    /\ cur = 0
    /\ insp = InspIdle

\* After run() has settled the caller gives the Flow a context with a new
\* data payload and calls run() on the same Flow again; the trace observes
\* the new call only.
RunAgain ==
    /\ stack = <<>> /\ outcome.st # "pending"
    /\ trace # <<>>
    /\ calls < MaxCalls
    /\ calls' = calls + 1
    /\ stack' = << NewFrame(1, "run") >>
    /\ trace' = <<>>
    /\ outcome' = [st |-> "pending"]
    /\ sdata' = [sdata EXCEPT ![heap[1].shared] = NewSharedData]
    /\ UNCHANGED <<heap, nextId, pstore, tasks, finished, parked, cur, sharedVars, insp>>

FlowNext ==
    \/ Run
    \/ Prep
    \/ ExecAttempt
    \/ RetryWait
    \/ Fallback
    \/ Post
    \/ RunReturn
    \/ FlowPrep
    \/ OrchestrateStart
    \/ OrchestrateNext
    \/ FlowPost
    \/ ExecDirect
    \/ RunAgain

SpecFlow == FlowInit /\ [][FlowNext]_vars

\* One call of run() on a Flow over one of the graphs, under the event loop
\* of the runtime: the continuation of every settled await runs and every
\* timer fires.
TermInit == FlowInit /\ stack[1].pc = "run"

TermNext ==
    \/ Run
    \/ Prep
    \/ ExecAttempt
    \/ RetryWait
    \/ Fallback
    \/ Post
    \/ RunReturn
    \/ FlowPrep
    \/ OrchestrateStart
    \/ OrchestrateNext
    \/ FlowPost

SpecTerm == TermInit /\ [][TermNext]_vars /\ WF_vars(TermNext)

\* The same graphs, with a start node whose prep writes a field of its
\* params; the Flow has the caller's record.
ParamsInit ==
    /\ LockIdle
    /\ \E g \in GraphNames, call \in {"run", "execDirect"} :
          LET n == Len(GraphHeap(g)) IN
          /\ heap = [GraphHeap(g) EXCEPT ![1].params = n + 1, ![1].shared = n + 1,
                                         ![2].writes = "k1"]
          /\ StoresInit(n)
          /\ stack = << NewFrame(1, call) >>
          /\ nextId = n + 1
    /\ trace = <<>>
    /\ outcome = [st |-> "pending"]
    /\ calls = 1
    /\ tasks = <<>>
    /\ finished = <<>>
    /\ parked = NoneParked
    /\ cur = 0
    /\ insp = InspIdle

SpecParams == ParamsInit /\ [][FlowNext]_vars

(***************************************************************************)
(* BatchFlow, ParallelBatchFlow  (src/unnamed/part_000 320-409)            *)
(***************************************************************************)
\* The key each parameter record of a batch has under k2, by its position.
RecordKeys == <<"r1", "r2", "r3">>

\* The parameter record at position i of what the batch flow's prep
\* returns: the first record also has a k1, as the Flow's own params have.
ParamRecord(i) ==
    [EmptyParams EXCEPT !["k2"] = RecordKeys[i],
                        !["k1"] = IF i = 1 THEN "rec" ELSE "<absent>"]

\* The arrays of parameter records the prep may return ([]: the default).
RecordArrays ==
    {[t |-> "array", items |-> [i \in 1..n |-> ParamRecord(i)]] : n \in 0..MaxRecords}

\* A merge in which the Flow's own fields win.
MergeParams_FlowWins(params, bp) ==
    [k \in ParamKeys |-> IF params[k] # "<absent>" THEN params[k] ELSE bp[k]]

\* { ...this._params, ...bp }
MergeParams(params, bp) ==
    [k \in ParamKeys |-> IF bp[k] # "<absent>" THEN bp[k] ELSE params[k]]

\* The stack and the trace of coroutine k.
StackOf(k) == IF k = cur THEN stack ELSE parked[k].stack

TraceOf(k) == IF k = cur THEN trace ELSE parked[k].trace

\* The traversals of a ParallelBatchFlow.
Traversals == DOMAIN parked \ {0}

\* The promise of the _orchestrate call of traversal k has resolved.
TraversalResolved(k) == Len(StackOf(k)) = 1 /\ StackOf(k)[1].pc = "done"

\* The promise of the _orchestrate call of traversal k has rejected.
TraversalRejected(k) == StackOf(k) = <<>>

\* A BatchFlow that starts all its traversals at once, as the parallel
\* variant does.
BatchFlowPrep_AlwaysLaunch ==
    /\ stack # <<>> /\ Top.pc = "prep"
    /\ IsBatchFlow(heap[Top.obj])
    /\ \E recs \in heap[Top.obj].prepResults :
          /\ trace' = LogPhase("prep", Top.obj, Undefined,
                               Event("prep", Top.obj, Undefined, recs, UndefAction), TRUE, recs)
          /\ stack' = SetTop([Top EXCEPT !.pc = "launch", !.prepRes = recs])
    /\ UNCHANGED <<heap, outcome, nextId, pstore, sdata, calls, tasks, finished, parked, cur, sharedVars, insp>>

\* BatchFlow._run / ParallelBatchFlow._run:  const batchParams = await this.prep()
BatchFlowPrep ==
    /\ stack # <<>> /\ Top.pc = "prep"
    /\ IsBatchFlow(heap[Top.obj])
    /\ \E recs \in heap[Top.obj].prepResults :
          /\ trace' = LogPhase("prep", Top.obj, Undefined,
                               Event("prep", Top.obj, Undefined, recs, UndefAction), TRUE, recs)
          /\ stack' = SetTop([Top EXCEPT
                 !.pc = IF heap[Top.obj].cls = "BatchFlow" THEN "loop" ELSE "launch",
                 !.prepRes = recs])
    /\ UNCHANGED <<heap, outcome, nextId, pstore, sdata, calls, tasks, finished, parked, cur, sharedVars, insp>>

\* BatchFlow._run: one turn of  for (const bp of batchParams)  up to the call
\* of _orchestrate(mergedParams), or the end of the loop.  The frame's trav
\* is the number of the record of the last turn.
BatchFlowLoop ==
    /\ stack # <<>> /\ Top.pc = "loop"
    /\ LET i == Top.trav + 1
           recs == Top.prepRes.items
       IN
       IF i <= Len(recs)
       THEN /\ pstore' = Append(pstore, MergeParams(pstore[heap[Top.obj].params], recs[i]))
            /\ stack' = SetTop([Top EXCEPT !.pc = "orchestrate", !.trav = i,
                                           !.p = Len(pstore) + 1])
       ELSE /\ stack' = SetTop([Top EXCEPT !.pc = "post", !.trav = 0, !.p = 0])
            /\ UNCHANGED pstore
    /\ UNCHANGED <<heap, trace, outcome, nextId, sdata, calls, tasks, finished, parked, cur, sharedVars, insp>>

\* batchParams.map(bp => this._orchestrate({...this._params, ...bp})) for
\* the records from i on: each call runs up to its first await, so it
\* clones start and sets the merged record and the context on the clone.
RECURSIVE LaunchFrom(_, _, _, _, _, _)
LaunchFrom(h, ps, id, frame, recs, i) ==
    IF i > Len(recs)
    THEN [heap |-> h, pstore |-> ps, nextId |-> id, stacks |-> <<>>, traces |-> <<>>]
    ELSE LET merged == Append(ps, MergeParams(ps[h[frame.obj].params], recs[i]))
             c == CloneOf(h, merged, h[frame.obj].start, id)
             passed == PassedOn(h[frame.obj], Len(merged))
             h2 == SetShared(SetParams(c.heap, c.addr,
                                       IF passed # 0 THEN passed ELSE h[frame.obj].params),
                             c.addr, h[frame.obj].shared)
             rest == LaunchFrom(h2, c.pstore, id + 1, frame, recs, i + 1)
             emitted == EmitsOf("orchestrate_start", frame.obj, h[frame.obj],
                                ps[h[frame.obj].params], merged[Len(merged)]) \o
                        EmitsOf("run_start", c.addr, h2[c.addr], c.pstore[h2[c.addr].params],
                                Undefined)
         IN  [rest EXCEPT
                 !.stacks = << << [frame EXCEPT !.pc = "awaiting", !.trav = i, !.p = Len(merged)],
                                  NewFrame(c.addr, "prep") >> >> \o @,
                 !.traces = << [j \in DOMAIN emitted |-> [emitted[j] EXCEPT !.trav = i]] >> \o @]

\* ParallelBatchFlow._run: the map over batchParams, up to  await Promise.all.
BatchFlowLaunch ==
    /\ stack # <<>> /\ Top.pc = "launch"
    /\ ClonesMade + Len(Top.prepRes.items) <= MaxRuns
    /\ LET l == LaunchFrom(heap, pstore, nextId, Top, Top.prepRes.items, 1) IN
       /\ heap' = l.heap
       /\ pstore' = l.pstore
       /\ nextId' = l.nextId
       /\ parked' = [k \in 0..Len(l.stacks) |->
                        IF k = 0 THEN parked[0]
                        ELSE [stack |-> l.stacks[k], trace |-> l.traces[k]]]
    /\ stack' = SetTop([Top EXCEPT !.pc = "joining"])
    /\ UNCHANGED <<trace, outcome, sdata, calls, tasks, finished, cur, sharedVars, insp>>

\* Promise.all can resolve: every traversal's promise has.
CanJoin == \A k \in Traversals : TraversalResolved(k)

\* Coroutine k has a continuation the event loop can run.
CanRun(k) ==
    /\ k \in DOMAIN parked /\ k # cur
    /\ parked[k].stack # <<>>
    /\ IF k = 0 THEN CanJoin ELSE ~TraversalResolved(k)

\* The running coroutine is at an await (or has ended): the event loop runs
\* the continuation of another one.
Switch(k) ==
    /\ CanRun(k)
    /\ parked' = [parked EXCEPT ![cur] = [stack |-> stack, trace |-> trace],
                                ![k] = [stack |-> <<>>, trace |-> <<>>]]
    /\ stack' = parked[k].stack
    /\ trace' = parked[k].trace
    /\ cur' = k
    /\ UNCHANGED <<heap, outcome, nextId, pstore, sdata, calls, tasks, finished, sharedVars, insp>>

\* await Promise.all(...) returns: every traversal has terminated.
BatchFlowJoin ==
    /\ stack # <<>> /\ Top.pc = "joining"
    /\ CanJoin
    /\ stack' = SetTop([Top EXCEPT !.pc = "post"])
    /\ UNCHANGED <<heap, trace, outcome, nextId, pstore, sdata, calls, tasks, finished, parked, cur, sharedVars, insp>>

\* The graph a batch flow runs for each record: X -> (default) Y; one of
\* the two may throw from one of its phases for the records with one key,
\* or from its exec for every record.
BatchFlowGraph(cls, failing, key, phase) ==
    << [NewFlow(1, 2) EXCEPT !.cls = cls,
                             !.prepResults = IF cls = "Flow" THEN PrepResults ELSE RecordArrays,
                             !.postActions = {UndefAction, "go"}],
       [On(NewNode("Node", 2, 1, 0, IF failing = 2 /\ key = "<all>" THEN 1 ELSE 0, "default"),
           "default", 3) EXCEPT
           !.postActions = {UndefAction, "stop"},
           !.failOn = IF failing = 2 THEN key ELSE "<none>",
           !.failPhase = phase],
       [NewNode("Node", 3, 1, 0, IF failing = 3 /\ key = "<all>" THEN 1 ELSE 0, "default") EXCEPT
           !.failOn = IF failing = 3 THEN key ELSE "<none>",
           !.failPhase = phase] >>

\* The ways a node of the graph fails: which node (0: none), for which key,
\* in which phase.
Failures ==
    {[node |-> 0, key |-> "<none>", phase |-> "exec"]} \cup
    [node : {2, 3}, key : {"<absent>", "r1", "r2"}, phase : {"prep", "exec", "post"}] \cup
    [node : {2, 3}, key : {"<all>"}, phase : {"exec"}]

\* A Flow, a BatchFlow or a ParallelBatchFlow over the graph; the caller
\* sets its context and its parameters and calls run().
BatchFlowInit ==
    /\ LockIdle
    /\ \E cls \in {"Flow", "BatchFlow", "ParallelBatchFlow"}, f \in Failures :
          heap = [BatchFlowGraph(cls, f.node, f.key, f.phase)
                     EXCEPT ![1].params = 4, ![1].shared = 4]
    /\ StoresInit(3)
    /\ stack = << NewFrame(1, "run") >>
    /\ nextId = 4
    /\ trace = <<>>
    /\ outcome = [st |-> "pending"]
    /\ calls = 1
    /\ tasks = <<>>
    /\ finished = <<>>
    /\ parked = NoneParked
    /\ cur = 0
    /\ insp = InspIdle

BatchFlowNext ==
    \/ Run
    \/ Prep
    \/ ExecAttempt
    \/ Fallback
    \/ Post
    \/ RunReturn
    \/ FlowPrep
    \/ OrchestrateStart
    \/ OrchestrateNext
    \/ FlowPost
    \/ BatchFlowPrep
    \/ BatchFlowLoop
    \/ BatchFlowLaunch
    \/ BatchFlowJoin
    \/ \E k \in 0..MaxRecords : Switch(k)

SpecBatchFlow == BatchFlowInit /\ [][BatchFlowNext]_vars

\* Flows inside flows: the outer flow starts with the Flow Mid, whose start
\* is the Flow Inner, whose start is the node Z; Z's exec may fail once and
\* fall back to a value.
NestedFlowGraph(cls, failN) ==
    << [NewFlow(1, 2) EXCEPT !.cls = cls,
                             !.prepResults = IF cls = "Flow" THEN PrepResults ELSE RecordArrays],
       NewFlow(2, 3),
       NewFlow(3, 4),
       NewNode("Node", 4, 1, 0, failN, "value") >>

\* A Flow, a BatchFlow or a ParallelBatchFlow over the nested flows; every
\* constructed node has a context of its own and either the empty parameter
\* record or one it was given; the caller sets the outer flow's context and
\* parameters and calls run().
NestedInit ==
    /\ LockIdle
    /\ \E cls \in {"Flow", "BatchFlow", "ParallelBatchFlow"}, failN \in {0, 1},
          tp \in {EmptyParams, TemplateParams} :
          /\ heap = [NestedFlowGraph(cls, failN) EXCEPT ![1].params = 5, ![1].shared = 5]
          /\ pstore = [i \in 1..5 |-> IF i <= 4 THEN tp ELSE CallerParams]
    /\ sdata = [i \in 1..5 |-> NewSharedData]
    /\ stack = << NewFrame(1, "run") >>
    /\ nextId = 5
    /\ trace = <<>>
    /\ outcome = [st |-> "pending"]
    /\ calls = 1
    /\ tasks = <<>>
    /\ finished = <<>>
    /\ parked = NoneParked
    /\ cur = 0
    /\ insp = InspIdle

SpecNested == NestedInit /\ [][BatchFlowNext]_vars

(***************************************************************************)
(* Inspector  (src/src/Inspector.ts)                                       *)
(***************************************************************************)
\* Most calls of inject before the graph is run.
MaxInjects == 2

\* Most listeners other code has registered on the Inspector's context.
MaxListeners == 1

\* Most parameter records in the array the prep of an inspected batch flow
\* returns.
MaxInspected == 1

\* is_flow_node(node)
IsFlowNode(node) == node.cls \in {"Flow", "BatchFlow", "ParallelBatchFlow"}

\* injectNode(node): set the marker, replace prep, exec, post and _run (and
\* a Flow's _orchestrate) by wrappers around the methods the node has.
InjectNode(node) == [node EXCEPT !.injected = TRUE, !.wraps = @ + 1]

\* A callback of inject that wraps a marked node again before it stops.
Visit_Rewrap(h, n) ==
    [stop |-> h[n].injected, heap |-> [h EXCEPT ![n] = InjectNode(@)]]

\* The callback inject gives walk: stop at a marked node, wrap any other.
Visit(h, n) ==
    IF h[n].injected
    THEN [stop |-> TRUE, heap |-> h]
    ELSE [stop |-> FALSE, heap |-> [h EXCEPT ![n] = InjectNode(@)]]

\* node._successors.values()
RECURSIVE ValuesOf(_, _)
ValuesOf(successors, as) ==
    IF as = {} THEN <<>>
    ELSE LET a == CHOOSE x \in as : TRUE
             rest == ValuesOf(successors, as \ {a})
         IN  IF successors[a] # 0 THEN << successors[a] >> \o rest ELSE rest

\* walk(node, fn): fn(node); unless it says stop, walk every successor and,
\* for a Flow, its start node.
RECURSIVE Walk(_, _)
RECURSIVE WalkAll(_, _)
Walk(h, n) ==
    LET v == Visit(h, n) IN
    IF v.stop THEN v.heap
    ELSE LET below == WalkAll(v.heap, ValuesOf(h[n].successors, Actions))
         IN  IF IsFlowNode(h[n]) THEN Walk(below, h[n].start) ELSE below

WalkAll(h, ns) == IF ns = <<>> THEN h ELSE WalkAll(Walk(h, Head(ns)), Tail(ns))

\* The graph is constructed and its run() has not started.
BeforeRun == cur = 0 /\ Len(stack) = 1 /\ Top.pc = "run" /\ insp.pc = "none"

\* Other code registers a listener of its own: shared.on(name, listener).
OtherOn ==
    /\ BeforeRun
    /\ insp.next <= MaxListeners
    /\ insp' = [insp EXCEPT !.listeners["prep_start"] = Append(@, insp.next),
                            !.keys = @ \cup {"prep_start"},
                            !.next = @ + 1]
    /\ UNCHANGED <<heap, stack, trace, outcome, nextId, pstore, sdata, calls, tasks, finished, parked, cur, sharedVars>>

\* inspector.inject(node)
Inject ==
    /\ BeforeRun
    /\ insp.injects < MaxInjects
    /\ \E root \in DOMAIN heap :
          /\ heap' = Walk(heap, root)
          /\ insp' = [insp EXCEPT !.injects = @ + 1, !.root = root]
    /\ UNCHANGED <<stack, trace, outcome, nextId, pstore, sdata, calls, tasks, finished, parked, cur, sharedVars>>

\* The names in the order collect registers its listeners.
CollectOrder ==
    << "run_start", "run_end", "prep_start", "prep_result", "post_start", "post_result",
       "exec_start", "exec_result", "orchestrate_start", "orchestrate_end" >>

\* shared.on(name, listener) for the names from i on, the listener of the
\* i-th name being the closure number first + i - 1.
RECURSIVE OnAll(_, _, _)
OnAll(listeners, first, i) ==
    IF i > Len(CollectOrder) THEN listeners
    ELSE OnAll([listeners EXCEPT ![CollectOrder[i]] = Append(@, first + i - 1)], first, i + 1)

\* An off that removes the oldest listener of the list.
Off_First(list, l) == IF list = <<>> THEN list ELSE Tail(list)

\* shared.off(name, listener): indexOf, then splice(index, 1).
Off(list, l) ==
    IF \E i \in DOMAIN list : list[i] = l
    THEN LET index == CHOOSE i \in DOMAIN list :
                         list[i] = l /\ \A j \in 1..(i - 1) : list[j] # l
         IN  SubSeq(list, 1, index - 1) \o SubSeq(list, index + 1, Len(list))
    ELSE list

\* offs.forEach((cb) => cb()) for the closures from i on.
RECURSIVE OffAll(_, _, _)
OffAll(listeners, first, i) ==
    IF i > Len(CollectOrder) THEN listeners
    ELSE OffAll([listeners EXCEPT ![CollectOrder[i]] = Off(@, first + i - 1)], first, i + 1)

\* collect(node, fn) with fn = (n) => n.run(), up to  await fn(node) :
\* inject(node), one listener per trace-event name, the call of run().
CollectStart ==
    /\ BeforeRun
    /\ heap' = Walk(heap, 1)
    /\ insp' = [insp EXCEPT !.pc = "collecting",
                            !.root = 1,
                            !.before = insp.listeners,
                            !.first = insp.next,
                            !.next = @ + Len(CollectOrder),
                            !.keys = @ \cup TraceEvents,
                            !.listeners = OnAll(insp.listeners, insp.next, 1)]
    /\ UNCHANGED <<stack, trace, outcome, nextId, pstore, sdata, calls, tasks, finished, parked, cur, sharedVars>>

\* The events collect's listeners have pushed: every emit since they were
\* registered (emit calls them unless the context is aborted).
Captured ==
    LET EmitsIn(tr) == Cardinality({i \in DOMAIN tr : tr[i].ev = "emit"})
        RECURSIVE Sum(_)
        Sum(ks) == IF ks = {} THEN 0
                   ELSE LET k == CHOOSE x \in ks : TRUE
                        IN  EmitsIn(IF k = cur THEN trace ELSE parked[k].trace) + Sum(ks \ {k})
    IN  Sum(DOMAIN parked)

\* collect from the settling of  await fn(node) : the finally block removes
\* the listeners; then return events, or the error of fn goes on.
CollectSettle ==
    /\ insp.pc = "collecting"
    /\ outcome.st # "pending"
    /\ insp' = [insp EXCEPT
          !.pc = "settled",
          !.listeners = OffAll(insp.listeners, insp.first, 1),
          !.result = IF outcome.st = "rejected" THEN outcome
                     ELSE [st |-> "resolved", val |-> [t |-> "events", n |-> Captured]]]
    /\ UNCHANGED <<heap, stack, trace, outcome, nextId, pstore, sdata, calls, tasks, finished, parked, cur, sharedVars>>

\* The graph the Inspector is given: a Flow of any kind over X -> (default)
\* Y, where Y may lead back to X (action "go"); one node may throw.
InspectGraph(cls, cyclic, failing, key, phase) ==
    LET g == BatchFlowGraph(cls, failing, key, phase)
        h == IF cls = "Flow" THEN g
             ELSE [g EXCEPT ![1].prepResults =
                      {recs \in RecordArrays : Len(recs.items) <= MaxInspected}]
    IN
    IF cyclic
    THEN [h EXCEPT ![3] = [On(h[3], "go", 2) EXCEPT !.postActions = {UndefAction, "go"}]]
    ELSE h

\* The ways a node of the inspected graph fails: none, or the second node
\* in one of its phases when its params have no key.
InspectFailures ==
    {[node |-> 0, key |-> "<none>", phase |-> "exec"]} \cup
    [node : {3}, key : {"<absent>"}, phase : {"prep", "exec", "post"}]

InspectInit ==
    /\ LockIdle
    /\ \E cls \in {"Flow", "BatchFlow", "ParallelBatchFlow"}, cyclic \in BOOLEAN,
          f \in InspectFailures :
          heap = [InspectGraph(cls, cyclic, f.node, f.key, f.phase)
                     EXCEPT ![1].params = 4, ![1].shared = 4]
    /\ StoresInit(3)
    /\ stack = << NewFrame(1, "run") >>
    /\ nextId = 4
    /\ trace = <<>>
    /\ outcome = [st |-> "pending"]
    /\ calls = 1
    /\ tasks = <<>>
    /\ finished = <<>>
    /\ parked = NoneParked
    /\ cur = 0
    /\ insp = InspIdle

\* The graph is instrumented with inject, any number of times, and run.
InspectNext ==
    \/ Inject
    \/ BatchFlowNext

SpecInspect == InspectInit /\ [][InspectNext]_vars

\* The graph is run, by itself or by collect, on a context other code may
\* have registered listeners on.
CollectNext ==
    \/ OtherOn
    \/ CollectStart
    \/ CollectSettle
    \/ BatchFlowNext

SpecCollect == InspectInit /\ [][CollectNext]_vars

\* Other code registers an async listener of its own that takes its time:
\* shared.on(name, async () => { await ... }), settling after run() has.
OtherOnSlow ==
    /\ BeforeRun
    /\ insp.next <= MaxListeners
    /\ insp' = [insp EXCEPT !.listeners["prep_start"] = Append(@, insp.next),
                            !.keys = @ \cup {"prep_start"},
                            !.next = @ + 1,
                            !.slow = TRUE]
    /\ UNCHANGED <<heap, stack, trace, outcome, nextId, pstore, sdata, calls, tasks, finished, parked, cur, sharedVars>>

\* emit(name) awaits a listener registered before collect's that has not
\* settled at once: the wrapper did not await the emit and has gone on.
Delayed(name) == insp.slow /\ insp.pc # "none" /\ insp.before[name] # <<>>

\* The emits of orchestration k whose loop has gone on to collect's listener.
ReleasedEmits(k) ==
    {insp.released[r].emit : r \in {q \in DOMAIN insp.released : insp.released[q].k = k}}

\* The emits of orchestration k still waiting for the earlier listener.
HeldEmits(k) ==
    LET tr == IF k = cur THEN trace ELSE parked[k].trace IN
    {i \in DOMAIN tr : tr[i].ev = "emit" /\ Delayed(tr[i].a.name) /\ i \notin ReleasedEmits(k)}

\* The promise of the earlier listener settles for the oldest waiting emit
\* of an orchestration: emit's loop goes on and calls collect's listener,
\* which pushes the event, after everything pushed so far. The slow
\* listener takes longer than the run.
OtherSettles ==
    /\ outcome.st # "pending"
    /\ \E k \in DOMAIN parked :
          /\ HeldEmits(k) # {}
          /\ LET i == CHOOSE x \in HeldEmits(k) : \A y \in HeldEmits(k) : x <= y
                 tr == IF k = cur THEN trace ELSE parked[k].trace
             IN  insp' = [insp EXCEPT !.released = Append(@, [k |-> k, emit |-> i, at |-> Len(tr)])]
    /\ UNCHANGED <<heap, stack, trace, outcome, nextId, pstore, sdata, calls, tasks, finished, parked, cur, sharedVars>>

\* The graph is run by collect on a context other code has registered
\* listeners on, prompt ones or slow ones.
CaptureNext ==
    \/ OtherOn
    \/ OtherOnSlow
    \/ OtherSettles
    \/ CollectStart
    \/ CollectSettle
    \/ BatchFlowNext

SpecCapture == InspectInit /\ [][CaptureNext]_vars

(***************************************************************************)
(* BatchNode, ParallelBatchNode  (src/unnamed/part_000 89-229)             *)
(***************************************************************************)
\* The JavaScript values a batch node's prep may return that are no arrays:
\* undefined (the default prep), null, a number, a string.
Null == [t |-> "null"]

NonArrays == {Undefined, Null, [t |-> "num", v |-> 0], [t |-> "str", len |-> 2]}

\* How execItem fails for an item: on the first failN calls for that item.
ItemFailures == 0..2

\* The item at position p of an array: its value is its position in the
\* array prep returned.
Items(n) == [1..n -> [v : {0}, failN : ItemFailures]]

\* The arrays of items.
ArraysOfLen(n) ==
    {[t |-> "array",
      items |-> [p \in 1..n |-> [v |-> p, failN |-> fs[p].failN]]] : fs \in Items(n)}

Arrays == UNION {ArraysOfLen(n) : n \in 0..MaxItems}

BatchPrepResults == NonArrays \cup Arrays

\* The retry policies a batch node is constructed with.
BatchRetries == 0..2

EmptyArray == [t |-> "array", items |-> <<>>]

\* !items : undefined, null, 0 and "" are falsy.
Falsy(v) ==
    \/ v.t \in {"undefined", "null"}
    \/ v.t = "num" /\ v.v = 0
    \/ v.t = "str" /\ v.len = 0

\* Array.isArray(items)
IsArray(v) == v.t = "array"

\* The TypeError of reading a property of undefined or null.
TypeError == [t |-> "error", msg |-> "TypeError: Cannot read properties", attempt |-> 0]

\* prepRes.length : throws on undefined and null, is undefined on a number.
JsLength(v) ==
    IF v.t \in {"undefined", "null"} THEN [throws |-> TRUE, len |-> 0]
    ELSE IF v.t = "array" THEN [throws |-> FALSE, len |-> Len(v.items)]
    ELSE IF v.t = "str" THEN [throws |-> FALSE, len |-> v.len]
    ELSE [throws |-> FALSE, len |-> 0]

\* v[i - 1] : the element of an array, a character of a string, else undefined.
JsIndex(v, i) ==
    IF v.t = "array" /\ i \in DOMAIN v.items THEN v.items[i]
    ELSE IF v.t = "str" /\ i <= v.len THEN [t |-> "char", at |-> i]
    ELSE Undefined

IsBatch(obj) == obj.cls \in {"BatchNode", "ParallelBatchNode"}

IsParallel(obj) == obj.cls = "ParallelBatchNode"

\* The user's execItem, called for the nth time for this item.
ItemError(item, nth) == [t |-> "error", msg |-> "fail", item |-> item.v, attempt |-> nth]

ItemResult(item, nth) == [t |-> "ok", of |-> item.v, attempt |-> nth]

ExecItemThrows(item, nth) == nth <= item.failN

\* An execFallbackItem that swallows the error.
ExecFallbackItem_Silent(obj, item, error) == [throws |-> FALSE, val |-> Undefined]

\* execFallbackItem(prepRes, error): BatchNode's default re-throws; a user's
\* override returns a result.
ExecFallbackItem(obj, item, error) ==
    IF obj.fallback = "default" THEN [throws |-> TRUE, val |-> error]
    ELSE [throws |-> FALSE, val |-> [t |-> "fallback", of |-> item.v, err |-> error]]

\* An item whose _execItem has not been called.
IdleTask(item) ==
    [item |-> item, st |-> "idle", currentRetry |-> 0, calls |-> 0, fallbacks |-> 0,
     res |-> Undefined, err |-> Undefined]

\* One turn of the loop of _execItem up to its await: the call of execItem,
\* or the end of the loop (return undefined).
LoopTurn(obj, task, currentRetry) ==
    IF RetryLoopContinues(currentRetry, obj.maxRetries)
    THEN [task EXCEPT !.st = "running", !.currentRetry = currentRetry, !.calls = @ + 1]
    ELSE [task EXCEPT !.st = "done", !.currentRetry = currentRetry, !.res = Undefined]

\* this._execItem(item) up to its first await.
StartItem(obj, item) == LoopTurn(obj, IdleTask(item), 0)

\* The items of ts whose wrapper is done at once, in input order.
RECURSIVE DoneAtOnce(_, _)
DoneAtOnce(ts, p) ==
    IF p > Len(ts) THEN <<>>
    ELSE (IF ts[p].st \in {"done", "failed"} THEN <<p>> ELSE <<>>) \o DoneAtOnce(ts, p + 1)

\* A join that puts the results in the order the items finished.
JoinResults_ByCompletion(ts, order) ==
    [t |-> "array", items |-> [k \in 1..Len(ts) |-> ts[order[k]].res]]

\* A join that yields no array when there was no item.
JoinResults_NoneForEmpty(ts, order) ==
    IF Len(ts) = 0 THEN Undefined
    ELSE [t |-> "array", items |-> [p \in 1..Len(ts) |-> ts[p].res]]

\* Promise.all: the results, at the positions of their promises.
JoinResults(ts, order) ==
    [t |-> "array", items |-> [p \in 1..Len(ts) |-> ts[p].res]]

\* A loop that takes the items from the end.
NextItem_Last(ts) ==
    IF \E p \in DOMAIN ts : ts[p].st = "idle"
    THEN CHOOSE p \in DOMAIN ts : ts[p].st = "idle" /\ \A q \in DOMAIN ts : ts[q].st = "idle" => q <= p
    ELSE 0

\* for (const item of items): the next item in input order (0: none left).
NextItem(ts) ==
    IF \E p \in DOMAIN ts : ts[p].st = "idle"
    THEN CHOOSE p \in DOMAIN ts : ts[p].st = "idle" /\ \A q \in DOMAIN ts : ts[q].st = "idle" => p <= q
    ELSE 0

\* BatchNode._exec / ParallelBatchNode._exec up to the first await: the
\* test for an array; the parallel variant maps _execItem over all items.
BatchExec ==
    /\ stack # <<>> /\ Top.pc = "exec"
    /\ IsBatch(heap[Top.obj])
    /\ LET obj == heap[Top.obj]
           items == Top.prepRes
       IN
       IF Falsy(items) \/ ~IsArray(items)
       THEN /\ trace' = Log(Event("warn", Top.obj, "received non-array input", items, UndefAction))
            /\ stack' = SetTop([Top EXCEPT !.pc = "post", !.execRes = EmptyArray])
            /\ UNCHANGED <<tasks, finished>>
       ELSE IF IsParallel(obj)
       THEN LET started == [p \in 1..Len(items.items) |-> StartItem(obj, items.items[p])] IN
            /\ tasks' = started
            /\ finished' = DoneAtOnce(started, 1)
            /\ stack' = SetTop([Top EXCEPT !.pc = "joining"])
            /\ UNCHANGED trace
       ELSE /\ tasks' = [p \in 1..Len(items.items) |-> IdleTask(items.items[p])]
            /\ finished' = <<>>
            /\ stack' = SetTop([Top EXCEPT !.pc = "loop"])
            /\ UNCHANGED trace
    /\ UNCHANGED <<heap, outcome, nextId, pstore, sdata, calls, parked, cur, sharedVars, insp>>

\* The sequential loop: results.push(await this._execItem(item)) for the
\* next item once the one before has finished, or return results.
BatchLoop ==
    /\ stack # <<>> /\ Top.pc = "loop"
    /\ \A p \in DOMAIN tasks : tasks[p].st \in {"idle", "done"}
    /\ LET p == NextItem(tasks) IN
       IF p = 0
       THEN /\ stack' = SetTop([Top EXCEPT !.pc = "post",
                                           !.execRes = JoinResults(tasks, finished)])
            /\ UNCHANGED <<tasks, finished>>
       ELSE LET t == StartItem(heap[Top.obj], tasks[p].item) IN
            /\ tasks' = [tasks EXCEPT ![p] = t]
            /\ finished' = IF t.st = "done" THEN Append(finished, p) ELSE finished
            /\ UNCHANGED stack
    /\ UNCHANGED <<heap, trace, outcome, nextId, pstore, sdata, calls, parked, cur, sharedVars, insp>>

\* A pending execItem of item p settles: return its result, or the catch
\* block of _execItem up to its await.
ItemSettle(p) ==
    /\ p \in DOMAIN tasks /\ tasks[p].st = "running"
    /\ LET t == tasks[p]
           obj == heap[1]
       IN
       IF ~ExecItemThrows(t.item, t.calls)
       THEN /\ tasks' = [tasks EXCEPT ![p] = [t EXCEPT !.st = "done",
                                                       !.res = ItemResult(t.item, t.calls)]]
            /\ finished' = Append(finished, p)
       ELSE /\ finished' = finished
            /\ tasks' = [tasks EXCEPT ![p] =
                 IF IsLastRetry(t.currentRetry, obj.maxRetries)
                 THEN [t EXCEPT !.st = "fallback", !.fallbacks = @ + 1,
                                !.err = ItemError(t.item, t.calls)]
                 ELSE IF obj.wait > 0
                 THEN [t EXCEPT !.st = "waiting"]
                 ELSE LoopTurn(obj, t, t.currentRetry + 1)]
    /\ UNCHANGED <<heap, stack, trace, outcome, nextId, pstore, sdata, calls, parked, cur, sharedVars, insp>>

\* The timer of item p's wait fires: the next turn of its loop.
ItemWait(p) ==
    /\ p \in DOMAIN tasks /\ tasks[p].st = "waiting"
    /\ LET t == LoopTurn(heap[1], tasks[p], tasks[p].currentRetry + 1) IN
       /\ tasks' = [tasks EXCEPT ![p] = t]
       /\ finished' = IF t.st = "done" THEN Append(finished, p) ELSE finished
    /\ UNCHANGED <<heap, stack, trace, outcome, nextId, pstore, sdata, calls, parked, cur, sharedVars, insp>>

\* The execFallbackItem called for item p settles. When it throws, the
\* promise of _execItem rejects: the sequential loop's await throws, and
\* Promise.all rejects if it has not yet; nothing catches up to run().
ItemFallback(p) ==
    /\ p \in DOMAIN tasks /\ tasks[p].st = "fallback"
    /\ LET t == tasks[p]
           r == ExecFallbackItem(heap[1], t.item, t.err)
       IN
       /\ finished' = Append(finished, p)
       /\ IF r.throws
          THEN /\ tasks' = [tasks EXCEPT ![p] = [t EXCEPT !.st = "failed", !.err = r.val]]
               /\ IF stack # <<>>
                  THEN Reject(r.val)
                  ELSE UNCHANGED <<stack, outcome>>
          ELSE /\ tasks' = [tasks EXCEPT ![p] = [t EXCEPT !.st = "done", !.res = r.val]]
               /\ UNCHANGED <<stack, outcome>>
    /\ UNCHANGED <<heap, trace, nextId, pstore, sdata, calls, parked, cur, sharedVars, insp>>

\* Promise.all resolves when every promise has.
BatchJoin ==
    /\ stack # <<>> /\ Top.pc = "joining"
    /\ \A p \in DOMAIN tasks : tasks[p].st = "done"
    /\ stack' = SetTop([Top EXCEPT !.pc = "post", !.execRes = JoinResults(tasks, finished)])
    /\ UNCHANGED <<heap, trace, outcome, nextId, pstore, sdata, calls, tasks, finished, parked, cur, sharedVars, insp>>

\* The calls of postItem that BatchNode.post makes for a length of n.
RECURSIVE PostItemCalls(_, _, _, _)
PostItemCalls(addr, prepRes, execRes, n) ==
    IF n = 0 THEN <<>>
    ELSE Append(PostItemCalls(addr, prepRes, execRes, n - 1),
                Event("postItem", addr, JsIndex(prepRes, n), JsIndex(execRes, n), UndefAction))

\* const a = await this.post(p, e); return a.  BatchNode.post reads
\* prepRes.length, calls postItem for each index and returns the first
\* action (postItem returns undefined); a user's own post picks an action.
BatchPost ==
    /\ stack # <<>> /\ Top.pc = "post"
    /\ IsBatch(heap[Top.obj])
    /\ IF heap[Top.obj].ownPost
       THEN \E a \in heap[Top.obj].postActions :
               /\ trace' = Log(Event("post", Top.obj, Top.prepRes, Top.execRes, a))
               /\ stack' = SetTop([Top EXCEPT !.pc = "ret", !.ret = a])
               /\ UNCHANGED outcome
       ELSE LET n == JsLength(Top.prepRes)
                called == Log(Event("post", Top.obj, Top.prepRes, Top.execRes, UndefAction))
            IN
            IF n.throws
            THEN /\ trace' = called
                 /\ Reject(TypeError)
            ELSE /\ trace' = called \o PostItemCalls(Top.obj, Top.prepRes, Top.execRes, n.len)
                 /\ stack' = SetTop([Top EXCEPT !.pc = "ret", !.ret = UndefAction])
                 /\ UNCHANGED outcome
    /\ UNCHANGED <<heap, nextId, pstore, sdata, calls, tasks, finished, parked, cur, sharedVars, insp>>

\* A standalone batch node, sequential or parallel, with any retry policy,
\* with or without an execFallbackItem and a post of its own; the caller
\* calls run().
BatchInit ==
    /\ LockIdle
    /\ \E cls \in {"BatchNode", "ParallelBatchNode"}, k \in BatchRetries, w \in WaitSeconds,
          fb \in {"default", "value"}, own \in BOOLEAN :
          heap = << [NewNode(cls, 1, k, w, 0, fb) EXCEPT
                        !.prepResults = BatchPrepResults,
                        !.postActions = {UndefAction, "go"},
                        !.ownPost = own] >>
    /\ StoresInit(1)
    /\ stack = << NewFrame(1, "run") >>
    /\ trace = <<>>
    /\ outcome = [st |-> "pending"]
    /\ nextId = 2
    /\ calls = 1
    /\ tasks = <<>>
    /\ finished = <<>>
    /\ parked = NoneParked
    /\ cur = 0
    /\ insp = InspIdle

BatchNext ==
    \/ Run
    \/ Prep
    \/ BatchExec
    \/ BatchLoop
    \/ \E p \in 1..MaxItems : ItemSettle(p)
    \/ \E p \in 1..MaxItems : ItemWait(p)
    \/ \E p \in 1..MaxItems : ItemFallback(p)
    \/ BatchJoin
    \/ BatchPost
    \/ RunReturn

SpecBatch == BatchInit /\ [][BatchNext]_vars

\* A step of some item's _execItem.
ItemStep == \E p \in 1..MaxItems : ItemSettle(p) \/ ItemWait(p) \/ ItemFallback(p)

\* The event loop runs every settled promise's continuation and every timer
\* that is due; every execItem and execFallbackItem settles.
SpecBatchFair == SpecBatch /\ WF_vars(ItemStep)

(***************************************************************************)
(* Claims about the retry wrapper, for the standalone node at address 1    *)
(***************************************************************************)
\* The positions of the trace where method ev was called on the object at addr.
Calls(ev, addr) == {i \in DOMAIN trace : trace[i].ev = ev /\ trace[i].obj = addr}

Settled == outcome.st # "pending"

\* What the node's prep returned (undefined before prep has run).
PrepResultOf(addr) ==
    IF Calls("prep", addr) = {} THEN Undefined
    ELSE trace[CHOOSE i \in Calls("prep", addr) : TRUE].b

\* C2: a Node with maxRetries = k >= 1 whose exec throws on its first j < k
\* attempts and then succeeds: run() calls exec exactly j+1 times, passes the
\* successful result to post, never calls execFallback and does not throw.
C2_RetryThenSuccess ==
    LET n == heap[1] IN
    (n.maxRetries >= 1 /\ n.failN < n.maxRetries) =>
        /\ Cardinality(Calls("exec", 1)) <= n.failN + 1
        /\ Calls("execFallback", 1) = {}
        /\ outcome.st # "rejected"
        /\ \A i \in Calls("post", 1) :
              /\ Cardinality(Calls("exec", 1)) = n.failN + 1
              /\ trace[i].b = [t |-> "ok", of |-> PrepResultOf(1), attempt |-> n.failN + 1]
        /\ Settled => /\ Cardinality(Calls("exec", 1)) = n.failN + 1
                      /\ Cardinality(Calls("post", 1)) = 1

\* C2's case: a run that needed a retry has resolved.
C2_Witness ==
    /\ outcome.st = "resolved"
    /\ heap[1].failN >= 1 /\ heap[1].failN < heap[1].maxRetries

\* C3: a Node with maxRetries = k >= 1 whose exec throws on every attempt:
\* exec is called exactly k times and execFallback exactly once, with the
\* error of the k-th attempt; a value execFallback returns is passed to post;
\* an error it throws (the default re-throws the k-th error) is what run()
\* rejects with, unmodified, and post is never called.
C3_ExhaustedRetries ==
    LET n == heap[1]
        lastError == [t |-> "error", msg |-> "fail", attempt |-> n.maxRetries,
                      key |-> "<absent>"]
    IN
    (n.maxRetries >= 1 /\ n.failN >= n.maxRetries) =>
        /\ Cardinality(Calls("exec", 1)) <= n.maxRetries
        /\ Cardinality(Calls("execFallback", 1)) <= 1
        /\ \A i \in Calls("execFallback", 1) :
              /\ Cardinality(Calls("exec", 1)) = n.maxRetries
              /\ trace[i].b = lastError
              /\ trace[i].a = PrepResultOf(1)
        /\ \A i \in Calls("post", 1) :
              /\ n.fallback = "value"
              /\ Calls("execFallback", 1) # {}
              /\ trace[i].b = [t |-> "fallback", of |-> PrepResultOf(1), err |-> lastError]
        /\ Settled =>
              /\ Cardinality(Calls("exec", 1)) = n.maxRetries
              /\ Cardinality(Calls("execFallback", 1)) = 1
              /\ n.fallback = "value" =>
                    outcome.st = "resolved" /\ Cardinality(Calls("post", 1)) = 1
              /\ n.fallback = "default" =>
                    outcome = [st |-> "rejected", val |-> lastError] /\ Calls("post", 1) = {}
              /\ n.fallback = "throws" =>
                    outcome = [st |-> "rejected", val |-> FallbackError] /\ Calls("post", 1) = {}

\* C3's case: every one of several attempts failed and the default
\* execFallback re-threw.
C3_Witness ==
    /\ outcome.st = "rejected"
    /\ heap[1].maxRetries >= 2 /\ heap[1].fallback = "default"
    /\ Cardinality(Calls("exec", 1)) = heap[1].maxRetries

(***************************************************************************)
(* Claims about Flow                                                       *)
(***************************************************************************)
\* The objects that are Flows.
Flows == {f \in DOMAIN heap : heap[f].cls = "Flow"}

\* The positions where method ev was called on a node that Flow f runs.
InnerCalls(ev, f) == {i \in DOMAIN trace : trace[i].ev = ev /\ trace[i].by = f}

\* The k-th smallest position of S.
Nth(S, k) == CHOOSE i \in S : Cardinality({j \in S : j < i}) = k - 1

\* The key of the successor map an action selects: the default edge when
\* the action is absent.
EdgeKey(action) == IF action = UndefAction \/ action = "" THEN "default" ELSE action

\* The successor that the node of post event e has for the action returned.
SuccessorFor(e) == heap[e.obj].successors[EdgeKey(e.ret)]

\* The constructed nodes Flow f has run so far, in the order it ran them.
RunOrder(f) ==
    [k \in 1..Cardinality(InnerCalls("prep", f)) |-> trace[Nth(InnerCalls("prep", f), k)].tmpl]

\* The traversal of Flow f so far is the action-selected path from its start.
FollowsPath(f) ==
    LET P == InnerCalls("prep", f)
        Q == InnerCalls("post", f)
    IN
    /\ Cardinality(Q) <= Cardinality(P) /\ Cardinality(P) <= Cardinality(Q) + 1
    /\ P # {} => /\ trace[Nth(P, 1)].tmpl = heap[f].start
                 /\ trace[Nth(P, 1)].obj # heap[f].start
    /\ \A k \in 1..Cardinality(Q) :
          /\ Nth(P, k) < Nth(Q, k)
          /\ trace[Nth(Q, k)].obj = trace[Nth(P, k)].obj
    /\ \A k \in 1..(Cardinality(P) - 1) :
          LET done == trace[Nth(Q, k)]
              next == trace[Nth(P, k + 1)]
          IN  /\ Nth(Q, k) < Nth(P, k + 1)
              /\ next.tmpl = SuccessorFor(done)
              /\ next.obj # next.tmpl
    /\ \A i \in DOMAIN trace :
          (trace[i].by = f /\ trace[i].ev \in {"exec", "execFallback"}) =>
              \E k \in 1..Cardinality(P) :
                 /\ trace[Nth(P, k)].obj = trace[i].obj
                 /\ Nth(P, k) < i
                 /\ k <= Cardinality(Q) => i < Nth(Q, k)

\* The traversal of Flow f has stopped: the last node it ran has completed
\* and has no successor for the action it returned.
TraversalEnded(f) ==
    LET P == InnerCalls("prep", f)
        Q == InnerCalls("post", f)
    IN  /\ P # {} /\ Cardinality(P) = Cardinality(Q)
        /\ SuccessorFor(trace[Nth(Q, Cardinality(Q))]) = 0

\* Flow 1 is over a chain 2 -> 3 -> 4 of default edges.
IsDefaultChain ==
    /\ Len(heap) >= 4 /\ heap[1].start = 2
    /\ heap[2].successors = [NoSuccessors EXCEPT !["default"] = 3]
    /\ heap[3].successors = [NoSuccessors EXCEPT !["default"] = 4]
    /\ heap[4].successors = NoSuccessors

\* C4: Flow.run() runs exactly the nodes on the action-selected path: first
\* a clone of the start node, then after each node completes a clone of the
\* successor its successor map has for the action its post returned (the
\* default edge when the action is absent), and it stops at the first node
\* with no matching successor; on a chain A -> B -> C of default edges every
\* node runs once, in chain order, and the shared counter ends at 3.
C4_ActionSelectedPath ==
    /\ \A f \in Flows : FollowsPath(f)
    /\ \A f \in Flows : Calls("post", f) # {} => TraversalEnded(f)
    /\ outcome.st = "resolved" => TraversalEnded(1)
    /\ ( /\ IsDefaultChain
         /\ outcome.st = "resolved"
         /\ \A i \in InnerCalls("post", 1) : EdgeKey(trace[i].ret) = "default" ) =>
            /\ RunOrder(1) = <<2, 3, 4>>
            /\ sdata[heap[1].shared].count = 3

\* C4's case: the chain has run to its end on default edges (its first node
\* after a retry).
C4_Witness ==
    /\ IsDefaultChain
    /\ outcome.st = "resolved"
    /\ RunOrder(1) = <<2, 3, 4>>
    /\ sdata[heap[1].shared].count = 3

\* C5: Flow.run() calls the Flow's own prep once, before any inner node
\* runs, and the Flow's own post once, with (prep result, undefined), after
\* the traversal has terminated, and returns the action post returns; run
\* never calls the Flow's exec, and a direct call of exec throws.
C5_FlowRunWrapsTraversal ==
    /\ \A f \in Flows :
          /\ Cardinality(Calls("prep", f)) <= 1
          /\ Cardinality(Calls("post", f)) <= 1
          /\ Calls("exec", f) = {} /\ Calls("execFallback", f) = {}
          /\ \A i \in DOMAIN trace : trace[i].by = f =>
                /\ \E j \in Calls("prep", f) : j < i
                /\ \A j \in Calls("post", f) : i < j
          /\ \A j \in Calls("post", f) :
                /\ Calls("prep", f) # {}
                /\ trace[j].a = PrepResultOf(f) /\ trace[j].b = Undefined
                /\ TraversalEnded(f)
    /\ outcome.st = "resolved" =>
          /\ Cardinality(Calls("prep", 1)) = 1
          /\ Cardinality(Calls("post", 1)) = 1
          /\ \A j \in Calls("post", 1) : outcome.val = trace[j].ret
    /\ (Settled /\ Calls("prep", 1) = {}) =>
          outcome = [st |-> "rejected", val |-> FlowCantExec]

\* C5's case: a run over several nodes has resolved with the action of the
\* Flow's post, which got the value the Flow's prep returned.
C5_Witness ==
    /\ outcome = [st |-> "resolved", val |-> "go"]
    /\ Cardinality(InnerCalls("post", 1)) >= 2
    /\ PrepResultOf(1) # Undefined
    /\ \E j \in Calls("post", 1) : trace[j].a = PrepResultOf(1)

\* The positions where a Flow starts to run as a node of another Flow.
NestedRuns ==
    {i \in DOMAIN trace :
        trace[i].ev = "prep" /\ trace[i].by # 0 /\ heap[trace[i].obj].cls = "Flow"}

\* C6: when a Flow F is a node of an outer Flow's graph, the outer traversal
\* runs F's prep, every node of F's inner traversal up to its terminal node
\* and F's post before it runs any outer successor of F, and that successor
\* is the one F's successor map has for the action F's post returns.
C6_NestedFlowRunsWhole ==
    \A i \in NestedRuns :
       LET f == trace[i].obj
           g == trace[i].by
           posts == Calls("post", f)
       IN
       /\ \A j \in DOMAIN trace : trace[j].by = f =>
             /\ i < j
             /\ \A q \in posts : j < q
       /\ posts # {} => TraversalEnded(f)
       /\ \A j \in DOMAIN trace :
             (trace[j].by = g /\ trace[j].obj # f /\ j > i) =>
                 /\ posts # {}
                 /\ \A q \in posts : q < j
       /\ \A q \in posts : \A j \in InnerCalls("prep", g) :
             (q < j /\ ~\E m \in InnerCalls("prep", g) : q < m /\ m < j) =>
                 /\ trace[j].tmpl = heap[f].successors[EdgeKey(trace[q].ret)]
                 /\ trace[q].by = g

\* C6's case: the inner Flow ran two nodes, its post returned "go", and the
\* outer Flow has gone on to the successor on that edge.
C6_Witness ==
    \E i \in NestedRuns :
       /\ Cardinality(InnerCalls("post", trace[i].obj)) = 2
       /\ \E q \in Calls("post", trace[i].obj) :
             /\ trace[q].ret = "go"
             /\ \E j \in InnerCalls("prep", trace[i].by) :
                   j > q /\ trace[j].tmpl = heap[trace[i].obj].successors["go"]

\* The positions where a Flow starts to run a node.
Executions == {i \in DOMAIN trace : trace[i].ev = "prep" /\ trace[i].by # 0}

\* No constructed node is run by a Flow; each execution is on an object of its
\* own with an id no other object has, and starts with the attempt counter
\* of the constructed node.
OnFreshClones ==
    /\ \A i \in DOMAIN trace : trace[i].by # 0 =>
          /\ trace[i].obj # trace[i].tmpl
          /\ heap[trace[i].tmpl].tmpl = trace[i].tmpl
          /\ \A a \in DOMAIN heap : a # trace[i].obj => heap[a].id # trace[i].id
    /\ \A i, j \in Executions : i # j => trace[i].obj # trace[j].obj
    /\ \A i \in Executions : trace[i].n = heap[trace[i].tmpl].attemptCount

\* No step changes a field of a constructed node.
TemplatesUnchanged ==
    \A a \in DOMAIN heap : heap[a].tmpl = a => heap'[a] = heap[a]

\* C7: running the same Flow twice in sequence, or reaching a node several
\* times through a loop, never executes a constructed node itself: every
\* execution is on a fresh clone with a new id, the attempt counter is at the
\* constructed node's value when an execution starts, and the runs leave the
\* fields of the constructed nodes unchanged.
C7_FreshCloneEachExecution == []OnFreshClones /\ [][TemplatesUnchanged]_vars

\* C7's case: in a second run() of the same Flow a node starts to run whose
\* clone of an earlier execution has counted attempts.
C7_Witness ==
    /\ calls = 2
    /\ \E i \in Executions : \E a \in DOMAIN heap :
          /\ a # trace[i].obj
          /\ heap[a].tmpl = trace[i].tmpl
          /\ heap[a].attemptCount > 0

(***************************************************************************)
(* Claims about the batch nodes, for the standalone node at address 1      *)
(***************************************************************************)
\* What the retry wrapper of a node constructed as obj yields for an item
\* when it does not throw.
ExpectedItemResult(obj, item) ==
    IF obj.maxRetries = 0 THEN Undefined
    ELSE IF item.failN < obj.maxRetries THEN ItemResult(item, item.failN + 1)
    ELSE [t |-> "fallback", of |-> item.v, err |-> ItemError(item, obj.maxRetries)]

\* The result sequence in input order.
ExpectedResults(obj, items) ==
    [t |-> "array", items |-> [p \in DOMAIN items |-> ExpectedItemResult(obj, items[p])]]

\* prep has returned an array and _exec has started on it.
ExecStarted ==
    /\ Calls("prep", 1) # {} /\ IsArray(PrepResultOf(1))
    /\ stack # <<>> => Top.pc \notin {"exec"}

\* C8: in a ParallelBatchNode the processing of every item is started
\* before any of them is awaited, and for every interleaving of their
\* completions the result sequence passed to post holds at each position p
\* the result of item p.
C8_ParallelResultsInInputOrder ==
    heap[1].cls = "ParallelBatchNode" =>
        /\ ExecStarted =>
              /\ Len(tasks) = Len(PrepResultOf(1).items)
              /\ \A p \in DOMAIN tasks :
                    /\ tasks[p].st # "idle"
                    /\ tasks[p].item = PrepResultOf(1).items[p]
                    /\ heap[1].maxRetries >= 1 => tasks[p].calls >= 1
        /\ ~ExecStarted => tasks = <<>>
        /\ \A i \in Calls("post", 1) :
              IsArray(trace[i].a) =>
                  /\ trace[i].a = PrepResultOf(1)
                  /\ trace[i].b = ExpectedResults(heap[1], trace[i].a.items)
                  /\ \A p \in DOMAIN tasks : tasks[p].st = "done"

\* C8's case: post has been called after the second item finished before
\* the first.
C8_Witness ==
    /\ heap[1].cls = "ParallelBatchNode"
    /\ Calls("post", 1) # {}
    /\ finished = <<2, 1>>
    /\ tasks[1].res # tasks[2].res

\* C9: a sequential BatchNode processes the items one at a time in input
\* order: the first execItem call for an item comes only after the retry
\* wrapper of the item before has finished, the result sequence is in input
\* order, and when an item's retries are exhausted and its fallback throws,
\* no later item is attempted, run() rejects with the error and post is not
\* called.
C9_SequentialOneAtATime ==
    heap[1].cls = "BatchNode" =>
        /\ \A p, q \in DOMAIN tasks :
              (p < q /\ (tasks[q].st # "idle" \/ tasks[q].calls > 0)) => tasks[p].st = "done"
        /\ \A k \in DOMAIN finished : finished[k] = k
        /\ \A i \in Calls("post", 1) :
              IsArray(trace[i].a) =>
                  /\ trace[i].b = ExpectedResults(heap[1], trace[i].a.items)
                  /\ \A p \in DOMAIN tasks : tasks[p].st = "done"
        /\ \A p \in DOMAIN tasks :
              tasks[p].st = "failed" =>
                  /\ tasks[p].calls = heap[1].maxRetries /\ tasks[p].fallbacks = 1
                  /\ outcome = [st |-> "rejected", val |-> ItemError(tasks[p].item, heap[1].maxRetries)]
                  /\ Calls("post", 1) = {}
                  /\ stack = <<>>
                  /\ \A q \in DOMAIN tasks : q > p => tasks[q] = IdleTask(tasks[q].item)

\* C9's case: the first item's retries were exhausted and its fallback
\* threw, with an item after it.
C9_Witness ==
    /\ heap[1].cls = "BatchNode"
    /\ Len(tasks) >= 2
    /\ tasks[1].st = "failed" /\ tasks[1].calls = 2
    /\ tasks[2].st = "idle"
    /\ outcome.st = "rejected"

\* C10: when the prep of a batch node returns a value that is not a
\* sequence (undefined, as the default prep does, included), no execItem is
\* called, a warning is logged, the result sequence is empty, and run()
\* completes without throwing.
C10_NonArrayIsEmptyInput ==
    (Calls("prep", 1) # {} /\ ~IsArray(PrepResultOf(1))) =>
        /\ tasks = <<>>
        /\ \A i \in Calls("post", 1) :
              /\ trace[i].b = EmptyArray
              /\ Calls("warn", 1) # {}
        /\ outcome.st # "rejected"
        /\ Settled => Cardinality(Calls("post", 1)) = 1

\* C11: a batch node (sequential or parallel) whose prep returns an empty
\* sequence calls no execItem, still calls post, with an empty result
\* sequence, and run() does not throw.
C11_EmptySequence ==
    (Calls("prep", 1) # {} /\ PrepResultOf(1) = EmptyArray) =>
        /\ \A p \in DOMAIN tasks : tasks[p].calls = 0
        /\ tasks = <<>> /\ finished = <<>>
        /\ \A i \in Calls("post", 1) :
              /\ trace[i].a = EmptyArray
              /\ trace[i].b = EmptyArray
        /\ outcome.st # "rejected"
        /\ Settled => Cardinality(Calls("post", 1)) = 1

\* C11's case: run() has resolved after a prep that returned [], with the
\* post BatchNode has.
C11_Witness ==
    /\ PrepResultOf(1) = EmptyArray
    /\ ~heap[1].ownPost
    /\ outcome.st = "resolved"
    /\ Calls("post", 1) # {}

\* The items whose retry wrapper rejected.
FailedItems == {p \in DOMAIN tasks : tasks[p].st = "failed"}

\* The place of item p in the order the items settled.
SettledAt(p) == CHOOSE k \in DOMAIN finished : finished[k] = p

\* The item whose retry wrapper was the first to reject.
FirstFailed == CHOOSE p \in FailedItems : \A q \in FailedItems : SettledAt(p) <= SettledAt(q)

\* prep returned an array with an item on which execItem throws at every
\* attempt the node makes, and the node re-throws from execFallbackItem.
SomeItemExhausts ==
    /\ Calls("prep", 1) # {} /\ IsArray(PrepResultOf(1))
    /\ heap[1].maxRetries >= 1 /\ heap[1].fallback = "default"
    /\ \E p \in DOMAIN PrepResultOf(1).items :
          PrepResultOf(1).items[p].failN >= heap[1].maxRetries

\* Every item has run to its success or to its failure.
AllItemsSettled == \A p \in DOMAIN tasks : tasks[p].st \in {"done", "failed"}

\* What holds in every state of a parallel batch node with a failing item.
ParallelFailure ==
    heap[1].cls = "ParallelBatchNode" =>
        /\ SomeItemExhausts => Calls("post", 1) = {} /\ outcome.st # "resolved"
        /\ FailedItems # {} =>
              /\ outcome = [st |-> "rejected", val |-> tasks[FirstFailed].err]
              /\ stack = <<>>
        /\ \A p \in DOMAIN tasks :
              /\ tasks[p].calls <= heap[1].maxRetries
              /\ tasks[p].st = "done" =>
                    /\ tasks[p].res = ExpectedItemResult(heap[1], tasks[p].item)
                    /\ heap[1].maxRetries >= 1 =>
                          tasks[p].calls = IF tasks[p].item.failN < heap[1].maxRetries
                                           THEN tasks[p].item.failN + 1
                                           ELSE heap[1].maxRetries
              /\ tasks[p].st = "failed" =>
                    /\ tasks[p].calls = heap[1].maxRetries
                    /\ tasks[p].fallbacks = 1
                    /\ tasks[p].err = ItemError(tasks[p].item, heap[1].maxRetries)

\* C12: in a ParallelBatchNode, when an item's retries are exhausted and
\* its fallback throws, run() rejects with the first such error without
\* waiting for the other items and post is not called, while the items
\* already started are not stopped: each goes on through its own remaining
\* attempts to its success or its failure.
C12_ParallelFirstErrorSiblingsContinue ==
    /\ []ParallelFailure
    /\ (heap[1].cls = "ParallelBatchNode" /\ ExecStarted) ~> AllItemsSettled
    /\ (heap[1].cls = "ParallelBatchNode" /\ ExecStarted /\ SomeItemExhausts)
          ~> (outcome.st = "rejected")

\* C12's case: run() has rejected with the second item's error, and the
\* first item has gone on to succeed after a retry.
C12_Witness ==
    /\ heap[1].cls = "ParallelBatchNode"
    /\ outcome.st = "rejected"
    /\ finished = <<2, 1>>
    /\ tasks[2].st = "failed"
    /\ tasks[1].st = "done" /\ tasks[1].calls = 2

(***************************************************************************)
(* Claims about the batch flows, for the flow at address 1                 *)
(***************************************************************************)
\* What the batch flow's prep returned to its _run (undefined before).
BatchParams ==
    LET P == {i \in DOMAIN TraceOf(0) : TraceOf(0)[i].ev = "prep" /\ TraceOf(0)[i].obj = 1}
    IN  IF P = {} THEN Undefined ELSE TraceOf(0)[CHOOSE i \in P : TRUE].b

\* The parameter records the batch flow's prep returned.
Records == IF IsArray(BatchParams) THEN BatchParams.items ELSE <<>>

\* The Flow's own params overlaid by record t: the record's fields win.
Overlaid(t) ==
    [k \in ParamKeys |->
        IF Records[t][k] = "<absent>" THEN pstore[heap[1].params][k] ELSE Records[t][k]]

\* The positions in the log tr of the calls of ev on the nodes of the
\* traversal for record t.
TravCalls(tr, ev, t) ==
    {i \in DOMAIN tr : tr[i].ev = ev /\ tr[i].by = 1 /\ tr[i].trav = t}

\* In the log tr the traversal for record t is a whole one: from a clone of
\* start along the action-selected path, as far as it has come.
WholeTraversal(tr, t) ==
    LET P == TravCalls(tr, "prep", t)
        Q == TravCalls(tr, "post", t)
    IN
    /\ Cardinality(Q) <= Cardinality(P) /\ Cardinality(P) <= Cardinality(Q) + 1
    /\ P # {} => tr[Nth(P, 1)].tmpl = heap[1].start
    /\ \A k \in 1..(Cardinality(P) - 1) :
          /\ Nth(Q, k) < Nth(P, k + 1)
          /\ tr[Nth(P, k + 1)].tmpl = SuccessorFor(tr[Nth(Q, k)])

\* In the log tr the traversal for record t has run and has terminated.
TravTerminated(tr, t) ==
    LET P == TravCalls(tr, "prep", t)
        Q == TravCalls(tr, "post", t)
    IN  /\ P # {} /\ Cardinality(P) = Cardinality(Q)
        /\ SuccessorFor(tr[Nth(Q, Cardinality(Q))]) = 0

\* C13: BatchFlow.run() runs one full traversal per parameter record its
\* prep returned, in record order and one after another (the traversal for
\* record t+1 starts only after the one for record t has terminated), each
\* with the Flow's own params overlaid by the record (the record's fields
\* win), and then calls the Flow's post once with the whole record
\* sequence; with an empty sequence no traversal runs and post is still
\* called once.
C13_BatchFlowSequentialTraversals ==
    heap[1].cls = "BatchFlow" =>
        /\ \A i \in DOMAIN trace : trace[i].by = 1 =>
              /\ trace[i].trav \in DOMAIN Records
              /\ trace[i].params = Overlaid(trace[i].trav)
              /\ \A t \in 1..(trace[i].trav - 1) :
                    /\ TravTerminated(trace, t)
                    /\ \A j \in DOMAIN trace : (trace[j].by = 1 /\ trace[j].trav = t) => j < i
        /\ \A t \in DOMAIN Records : WholeTraversal(trace, t)
        /\ Cardinality(Calls("post", 1)) <= 1
        /\ \A i \in Calls("post", 1) :
              /\ trace[i].a = BatchParams /\ trace[i].b = Undefined
              /\ \A t \in DOMAIN Records : TravTerminated(trace, t)
              /\ \A j \in DOMAIN trace : trace[j].by = 1 => j < i
        /\ outcome.st = "resolved" =>
              /\ Cardinality(Calls("post", 1)) = 1
              /\ \A i \in Calls("post", 1) : outcome.val = trace[i].ret

\* C13's case: the run over two records has resolved, each traversal went
\* through both nodes.
C13_Witness ==
    /\ heap[1].cls = "BatchFlow"
    /\ outcome.st = "resolved"
    /\ Len(Records) = 2
    /\ \A t \in {1, 2} : Cardinality(TravCalls(trace, "post", t)) = 2
    /\ \E i \in TravCalls(trace, "prep", 1) : trace[i].params["k1"] = "rec"

\* The orchestrations have been started.
Launched ==
    \/ StackOf(0) = <<>>
    \/ StackOf(0)[1].pc \notin {"run", "prep", "launch"}

\* C14: ParallelBatchFlow.run() starts one traversal per parameter record,
\* all of them before any has gone past its first await, and calls the
\* Flow's post at most once (exactly once when run() resolves) and only
\* after every traversal has terminated; in every interleaving every node
\* run in the traversal of record k observes the Flow's params overlaid by
\* record k, never another record's fields.
C14_ParallelTraversalsIsolated ==
    heap[1].cls = "ParallelBatchFlow" =>
        /\ \A i \in DOMAIN TraceOf(0) : TraceOf(0)[i].by = 0
        /\ Launched => Traversals = DOMAIN Records
        /\ ~Launched => Traversals = {}
        /\ \A k \in Traversals :
              /\ WholeTraversal(TraceOf(k), k)
              /\ \A i \in DOMAIN TraceOf(k) :
                    /\ TraceOf(k)[i].by = 1
                    /\ TraceOf(k)[i].trav = k
                    /\ TraceOf(k)[i].params = Overlaid(k)
                    /\ pstore[heap[TraceOf(k)[i].obj].params] = Overlaid(k)
        /\ LET posts == {i \in DOMAIN TraceOf(0) :
                            TraceOf(0)[i].ev = "post" /\ TraceOf(0)[i].obj = 1}
           IN  /\ Cardinality(posts) <= 1
               /\ \A i \in posts :
                     /\ TraceOf(0)[i].a = BatchParams /\ TraceOf(0)[i].b = Undefined
                     /\ \A k \in DOMAIN Records :
                           TraversalResolved(k) /\ TravTerminated(TraceOf(k), k)
               /\ outcome.st = "resolved" => Cardinality(posts) = 1

\* C14's case: two traversals have run interleaved (the one of record 2 came
\* to node Y before the one of record 1) and run() has resolved after post.
C14_Witness ==
    /\ heap[1].cls = "ParallelBatchFlow"
    /\ outcome.st = "resolved"
    /\ Traversals = {1, 2}
    /\ \E i \in DOMAIN TraceOf(1), j \in DOMAIN TraceOf(2) :
          /\ TraceOf(1)[i].tmpl = 3 /\ TraceOf(2)[j].tmpl = 3
          /\ TraceOf(2)[j].obj < TraceOf(1)[i].obj
    /\ \E i \in DOMAIN TraceOf(0) : TraceOf(0)[i].ev = "post"

\* The traversals that have thrown.
Thrown == {k \in Traversals : TraversalRejected(k)}

\* The last call a traversal made.
LastCall(k) == TraceOf(k)[Len(TraceOf(k))]

\* The traversals that threw while run() was still pending.
ThrownFirst == {k \in Thrown : LastCall(k).after = "pending"}

\* The Flow's own post calls.
FlowPosts == {i \in DOMAIN TraceOf(0) : TraceOf(0)[i].ev = "post" /\ TraceOf(0)[i].obj = 1}

\* The writes to the shared data: the posts of the traversals' nodes that
\* returned.
Writes ==
    UNION {{<<k, i>> : i \in {j \in DOMAIN TraceOf(k) :
                                /\ TraceOf(k)[j].ev = "post"
                                /\ ~PhaseThrows(heap[TraceOf(k)[j].obj], "post")}} :
           k \in Traversals}

\* C15: when a traversal of a ParallelBatchFlow throws, run() rejects at
\* once with the error of the first traversal that threw, whatever the
\* siblings are doing, and the Flow's post is never called; the siblings run
\* on: a later error changes nothing, and what they write to the shared
\* data is written after the rejection.
C15_ParallelFlowFirstError ==
    heap[1].cls = "ParallelBatchFlow" =>
        /\ Thrown # {} <=> outcome.st = "rejected"
        /\ Thrown # {} =>
              /\ FlowPosts = {}
              /\ Cardinality(ThrownFirst) = 1
              /\ \A k \in ThrownFirst :
                    /\ outcome.val.key = Records[k]["k2"]
                    /\ LastCall(k).ev \in {"prep", "execFallback", "post"}
                    /\ outcome.val.t = "error"
        /\ \A k \in Traversals : \A i \in DOMAIN TraceOf(k) :
              TraceOf(k)[i].after = "rejected" => Thrown # {}
        /\ sdata[heap[1].shared].count = Cardinality(Writes)

\* C15's case: record 1's traversal threw at its first node and run()
\* rejected; record 2's traversal then ran both its nodes to the end, writing
\* to the shared data after the rejection.
C15_Witness ==
    /\ heap[1].cls = "ParallelBatchFlow"
    /\ outcome.st = "rejected"
    /\ Thrown = {1}
    /\ 2 \in Traversals /\ TraversalResolved(2)
    /\ Cardinality(TravCalls(TraceOf(2), "post", 2)) = 2
    /\ \A i \in DOMAIN TraceOf(2) : TraceOf(2)[i].after = "rejected"
    /\ Cardinality(Writes) = 2

\* The calls in which a node of a traversal threw: a prep or post that
\* throws, or the execFallback reached after the retries, which rethrows.
ThrowingCalls ==
    {i \in DOMAIN trace :
        /\ trace[i].by # 0
        /\ \/ /\ trace[i].ev \in {"prep", "post"}
              /\ heap[trace[i].tmpl].failPhase = trace[i].ev
              /\ heap[trace[i].tmpl].failOn = trace[i].params["k2"]
           \/ trace[i].ev = "execFallback"}

\* C16: in a Flow or a sequential BatchFlow, an error thrown by a phase of a
\* node (prep, exec after its retries and fallback, post) leaves the
\* enclosing Flow's run(): run() rejects with that error and nothing is
\* called afterwards, neither a later node of the traversal, nor the Flow's
\* own post, nor any node for a later parameter record.
C16_ErrorPropagatesOutOfFlow ==
    heap[1].cls \in {"Flow", "BatchFlow"} =>
        /\ \A i \in ThrowingCalls :
              /\ i = Len(trace)
              /\ stack = <<>>
              /\ outcome.st = "rejected"
              /\ outcome.val.t = "error"
              /\ outcome.val.key = trace[i].params["k2"]
              /\ outcome.val.msg = (IF trace[i].ev = "execFallback" THEN "fail" ELSE trace[i].ev)
              /\ Calls("post", 1) = {}
              /\ \A j \in DOMAIN trace : trace[j].trav <= trace[i].trav
        /\ outcome.st = "rejected" => ThrowingCalls # {}
        /\ \A i \in DOMAIN trace :
              (trace[i].ev = "exec" /\ trace[i].by # 0 /\ ExecThrows(heap[trace[i].obj]) /\ i < Len(trace))
                  => trace[i + 1].ev = "execFallback" /\ trace[i + 1].obj = trace[i].obj

\* C16's case: a BatchFlow over two records whose second node throws from
\* post for record 1: the first node ran, run() has rejected and no node
\* has run for record 2.
C16_Witness ==
    /\ heap[1].cls = "BatchFlow"
    /\ Len(Records) = 2
    /\ outcome.st = "rejected"
    /\ outcome.val.msg = "post"
    /\ \E i \in ThrowingCalls : trace[i].tmpl = 3 /\ trace[i].trav = 1
    /\ TravCalls(trace, "post", 1) # {}
    /\ \A j \in DOMAIN trace : trace[j].trav # 2

(***************************************************************************)
(* Claims about the Inspector, for the flow at address 1                   *)
(***************************************************************************)
\* The coroutines of the run.
Coroutines == DOMAIN parked

\* The positions in the log tr of the calls of prep, exec and post.
PhaseCalls(tr) == {i \in DOMAIN tr : tr[i].ev \in {"prep", "exec", "post"}}

\* The params a node of a traversal observes when nothing is instrumented:
\* the Flow's own for a Flow, the Flow's overlaid by the record of the
\* traversal for a batch flow.
PlainParams(t) == IF t = 0 THEN pstore[heap[1].params] ELSE Overlaid(t)

\* C17: instrumenting a graph does not change what it does: every phase of
\* every node is invoked with the params of the uninstrumented run (for the
\* nodes of a batch flow, the Flow's params overlaid by the record of the
\* traversal), whether or not the Inspector has wrapped the graph.
C17_InstrumentationTransparent ==
    \A k \in Coroutines : \A i \in PhaseCalls(TraceOf(k)) :
        TraceOf(k)[i].by # 0 => TraceOf(k)[i].params = PlainParams(TraceOf(k)[i].trav)

\* The same, for the runs of graphs the Inspector has not touched.
PlainRunsAsSpecified ==
    (\A a \in DOMAIN heap : heap[a].wraps = 0) => C17_InstrumentationTransparent

\* The nodes walk reaches from node n: through successor maps and, for a
\* Flow, its start node.
RECURSIVE ReachableFrom(_)
ReachableFrom(S) ==
    LET more == S \cup {heap[n].successors[a] : n \in S, a \in Actions}
                  \cup {heap[n].start : n \in {m \in S : IsFlowNode(heap[m])}}
        T == more \ {0}
    IN  IF T = S THEN S ELSE ReachableFrom(T)

\* Every node reachable from the node the last inject was given carries
\* the marker and one wrapper; no object has more than one.
WrappedOnce ==
    /\ insp.root # 0 =>
          \A n \in ReachableFrom({insp.root}) : heap[n].injected /\ heap[n].wraps = 1
    /\ \A a \in DOMAIN heap : heap[a].wraps = (IF heap[a].injected THEN 1 ELSE 0)

\* Entry j of the log tr is an emit of the event called name for the
\* receiver of the call at i.
EmitAt(tr, j, i, name) ==
    /\ j \in DOMAIN tr
    /\ tr[j].ev = "emit"
    /\ tr[j].obj = tr[i].obj
    /\ tr[j].a.name = name

StartNameOf(ev) ==
    CASE ev = "prep" -> "prep_start" [] ev = "exec" -> "exec_start" [] ev = "post" -> "post_start"

ResultNameOf(ev) ==
    CASE ev = "prep" -> "prep_result" [] ev = "exec" -> "exec_result" [] ev = "post" -> "post_result"

\* The call at i of the log tr is announced by exactly one start event.
OneStart(tr, i) ==
    /\ EmitAt(tr, i - 1, i, StartNameOf(tr[i].ev))
    /\ ~EmitAt(tr, i - 2, i, StartNameOf(tr[i].ev))

\* The call at i of the log tr is followed by exactly one result event.
OneResult(tr, i) ==
    /\ EmitAt(tr, i + 1, i, ResultNameOf(tr[i].ev))
    /\ ~EmitAt(tr, i + 2, i, ResultNameOf(tr[i].ev))

\* The call at i of the log tr is followed by no result event.
NoResult(tr, i) == ~EmitAt(tr, i + 1, i, ResultNameOf(tr[i].ev))

\* The call (an entry of a log) threw.
CallThrew(e) ==
    \/ /\ heap[e.tmpl].failPhase = e.ev
       /\ heap[e.tmpl].failOn = e.params["k2"]
    \/ e.ev = "exec" /\ e.n + 1 <= heap[e.tmpl].failN

\* The phase calls in the log tr on objects the Inspector wrapped.
WrappedCalls(tr) == {i \in PhaseCalls(tr) : heap[tr[i].obj].injected}

\* C18 as stated: every node reachable from the node given to inject is
\* wrapped exactly once, however many times overlapping graphs are
\* injected, and each phase call emits exactly one start event and exactly
\* one result event.
C18_OneStartOneResultPerCall ==
    /\ WrappedOnce
    /\ \A k \in Coroutines : \A i \in WrappedCalls(TraceOf(k)) :
          OneStart(TraceOf(k), i) /\ OneResult(TraceOf(k), i)

\* C18, amended: every node reachable from the node given to inject is
\* wrapped exactly once, however many times overlapping (and cyclic) graphs
\* are injected; each phase call of a wrapped node emits exactly one start
\* event, and exactly one result event when the call returns; a call that
\* throws emits its start event and no result event; nodes that are not
\* wrapped emit nothing.
C18_Amended_OneStartAndResultIfReturned ==
    /\ WrappedOnce
    /\ \A k \in Coroutines :
          /\ \A i \in WrappedCalls(TraceOf(k)) :
                /\ OneStart(TraceOf(k), i)
                /\ IF CallThrew(TraceOf(k)[i])
                   THEN NoResult(TraceOf(k), i)
                   ELSE OneResult(TraceOf(k), i)
          /\ \A i \in DOMAIN TraceOf(k) :
                TraceOf(k)[i].ev = "emit" => heap[TraceOf(k)[i].obj].injected

\* C18's case: a cyclic graph injected twice, from a node inside it and from
\* the Flow; the first node's phases returned, each between its start and
\* its result event; the second node's post threw after its start event.
C18_Witness ==
    /\ insp.injects = 2 /\ insp.root = 1
    /\ heap[3].successors["go"] = 2
    /\ outcome.st = "rejected"
    /\ \E i \in WrappedCalls(trace) :
          /\ trace[i].tmpl = 3 /\ trace[i].ev = "post"
          /\ CallThrew(trace[i]) /\ i = Len(trace)
    /\ \E i \in WrappedCalls(trace) :
          /\ trace[i].tmpl = 2 /\ trace[i].ev = "post"
          /\ OneResult(trace, i)

\* The listeners registered for a trace-event name.
ListenersOf(name) == insp.listeners[name]

\* The listener collect registered for the i-th name of its list.
CollectListener(i) == insp.first + i - 1

\* C19: collect detaches all its temporary listeners on every exit path:
\* while fn runs each trace-event name has collect's listener, once, after
\* those registered before; once collect settles, whether fn resolved or
\* threw, the listener list of every trace-event name is what it was before
\* the call, and collect rejects with the error fn threw (and resolves
\* with the events otherwise).
C19_CollectDetachesListeners ==
    /\ insp.pc = "collecting" =>
          \A i \in DOMAIN CollectOrder :
              ListenersOf(CollectOrder[i]) =
                  Append(insp.before[CollectOrder[i]], CollectListener(i))
    /\ insp.pc = "settled" =>
          /\ \A name \in TraceEvents : ListenersOf(name) = insp.before[name]
          /\ insp.result.st = outcome.st
          /\ outcome.st = "rejected" => insp.result = outcome
          /\ outcome.st = "resolved" => insp.result.val.t = "events"
    /\ insp.pc = "none" => insp.result.st = "pending"
    /\ insp.pc = "collecting" => insp.result.st = "pending"

\* C19's case: fn threw (a node of the graph threw), collect has settled
\* with that error, and another listener registered before the call is
\* still there.
C19_Witness ==
    /\ insp.pc = "settled"
    /\ insp.result.st = "rejected"
    /\ insp.result.val.t = "error"
    /\ ListenersOf("prep_start") = << 1 >>
    /\ \E i \in DOMAIN trace : trace[i].ev = "emit"

(***************************************************************************)
(* Claims about the locker's hand-over                                     *)
(***************************************************************************)
\* The callers other than c whose acquire(r) has arrived and who have not
\* released r yet.
Pending(c, r) == {d \in Callers \ {c} : lockRes[d] = r /\ lockPc[d] # "idle"}

\* Caller c calls release in this step.
Releases(c) == lockPc[c] = "cs" /\ lockPc'[c] = "idle"

\* No acquire is ever queued: the branch of acquire that pushes the resolver
\* needs a non-empty array, and only that branch makes one.
NoCallerWaits == \A c \in Callers : lockPc[c] # "waiting"

\* C20: release(id) hands the lock over to the caller whose acquire arrived
\* earliest among those that arrived while the id was held (they are
\* waiting, in arrival order, and the others keep waiting), and frees the
\* id only when there is no such caller, so that the next acquire succeeds
\* at once.
C20_ReleaseHandsOverOrFrees ==
    [][\A c \in Callers : Releases(c) =>
          LET r == lockRes[c] IN
          IF Pending(c, r) = {}
          THEN AcquireIsFree(locks'[r])
          ELSE /\ \A d \in Pending(c, r) : lockPc[d] = "waiting"
               /\ lockPc'[Head(locks[r].waiting)] = "granted"
               /\ \A d \in Pending(c, r) \ {Head(locks[r].waiting)} : lockPc'[d] = "waiting"
               /\ ~AcquireIsFree(locks'[r]) \/ Len(locks[r].waiting) = 1]_vars

(***************************************************************************)
(* Claims about withLock                                                   *)
(***************************************************************************)
\* The callers whose acquire(r) has arrived and who have not released r.
Using(r) == {c \in Callers : lockRes[c] = r /\ lockPc[c] # "idle"}

\* C21: withLock(id, body) releases id on every exit path: whether body
\* resolves or throws, once withLock has settled its caller no longer holds
\* id (it called release after the body, the id has no entry left unless
\* another caller is using it, and a later acquire(id) resolves at once),
\* body runs only after the acquire, and the promise of withLock settles
\* with body's value or error unchanged.
C21_WithLockReleasesOnEveryExit ==
    \A c \in Callers :
        LET call == lockCall[c]
            r == lockRes[c]
        IN  /\ call.st = "called" =>
                /\ call.log = IF lockPc[c] = "cs" THEN <<"acquire", "body">>
                                                 ELSE <<"acquire">>
                /\ call.result = [st |-> "pending"]
            /\ call.st = "settled" =>
                /\ ~Holds(c, r)
                /\ call.log = <<"acquire", "body", "release">>
                /\ call.result = call.body
                /\ Using(r) = {} =>
                      /\ locks[r] = NoEntry
                      /\ \A d \in Callers : LockerAcquire(locks[r], d).resolved

\* Two calls of withLock on the same id have settled, one whose body threw
\* and one whose body returned, and nobody is using the id.
C21_Witness ==
    \E c, d \in Callers :
        /\ lockCall[c].st = "settled" /\ lockCall[c].result = [st |-> "rejected", err |-> "e1"]
        /\ lockCall[d].st = "settled" /\ lockCall[d].result = [st |-> "resolved", val |-> "v1"]
        /\ lockRes[c] = lockRes[d]
        /\ Using(lockRes[c]) = {}

(***************************************************************************)
(* Claims about transitions: getNextNode, run, on, next                    *)
(***************************************************************************)
\* A Flow's _orchestrate has the action of the node it ran and calls
\* getNextNode in this step.
AsksNext == Len(stack) >= 2 /\ Top.pc = "ret" /\ stack[Len(stack) - 1].pc = "awaiting"

\* The events logged in this step.
Logged == SubSeq(trace', Len(trace) + 1, Len(trace'))

\* The warnings among them.
Warned == {i \in DOMAIN Logged : Logged[i].ev = "warn"}

\* run() rejects only with the error of an exec whose retries are used up
\* and whose execFallback rethrows (an empty trace: the caller called exec,
\* not run).
RejectedByExec ==
    (outcome.st = "rejected" /\ trace # <<>>) =>
        /\ trace[Len(trace)].ev = "execFallback"
        /\ outcome.val = trace[Len(trace)].b

\* C22: getNextNode(action) never throws: it returns the successor
\* registered for the action (the default edge for an absent or empty
\* action) or nothing, and it logs a warning exactly when no successor
\* matches and the node has at least one edge; inside a Flow an unmatched
\* action ends the traversal as a normal transition (the Flow goes on to
\* its own post) and no error reaches the caller of run().
C22_GetNextNodeNeverThrows ==
    [][ /\ RejectedByExec'
        /\ AsksNext =>
            LET node == heap[Top.obj]
                succ == node.successors[EdgeKey(Top.ret)]
                flowFrame == stack[Len(stack) - 1]
            IN  /\ outcome' = outcome
                /\ stack' # <<>>
                /\ Cardinality(Warned) =
                      (IF succ = 0 /\ SuccessorsSize(node.successors) > 0 THEN 1 ELSE 0)
                /\ \A i \in Warned : Logged[i].obj = Top.obj /\ Logged[i].ret = Top.ret
                /\ succ # 0 =>
                      /\ Len(stack') = Len(stack)
                      /\ heap'[stack'[Len(stack')].obj].tmpl = succ
                      /\ stack'[Len(stack')].pc = "prep"
                /\ succ = 0 =>
                      /\ stack' = Append(SubSeq(stack, 1, Len(stack) - 2),
                                         [flowFrame EXCEPT !.pc = "post"])
                      /\ heap' = heap ]_vars

\* C22's case: a node with edges returned an action none of them matches;
\* the warning is logged, the Flow's post ran and run() has resolved.
C22_Witness ==
    /\ outcome.st = "resolved"
    /\ \E i \in DOMAIN trace :
          /\ trace[i].ev = "warn" /\ trace[i].by = 1
          /\ trace[i].ret = "stop"
          /\ SuccessorsSize(heap[trace[i].obj].successors) > 0
          /\ i < Len(trace) /\ trace[i + 1].ev = "post" /\ trace[i + 1].obj = 1

\* Flow 1 is over a single node: every object is the Flow, the node, or a
\* clone of the node.
SingleNodeFlow ==
    /\ heap[1].cls = "Flow" /\ heap[1].start = 2 /\ heap[2].cls = "Node"
    /\ \A a \in DOMAIN heap : heap[a].tmpl \in {1, 2}

\* The warnings getNextNode has logged during this run().
EndWarnings ==
    {i \in DOMAIN trace : trace[i].ev = "warn" /\ trace[i].a = "Flow ends: action not found"}

\* run() on the Flow has settled after its node's post returned an action
\* with no matching successor.
EndedUnmatched ==
    /\ stack = <<>> /\ outcome.st # "pending"
    /\ InnerCalls("post", 1) # {}
    /\ TraversalEnded(1)

\* C23 as stated: for a Flow of a single node whose post returns an action
\* with no matching successor, run() completes without throwing and logs a
\* warning.
C23_SingleNodeUnmatchedWarns ==
    (SingleNodeFlow /\ EndedUnmatched) =>
        /\ outcome.st = "resolved"
        /\ EndWarnings # {}

\* C23 amended: for a Flow of a single node whose post returns an action
\* with no matching successor, run() completes without throwing; it logs
\* one warning when the node has at least one outgoing edge (an edge back to
\* itself) and no warning when the node has no edges.
C23_Amended_WarnsOnlyWithEdges ==
    (SingleNodeFlow /\ EndedUnmatched) =>
        /\ outcome.st = "resolved"
        /\ Cardinality(EndWarnings) =
              (IF SuccessorsSize(heap[2].successors) > 0 THEN 1 ELSE 0)
        /\ \A i \in EndWarnings :
              i > 1 /\ trace[i - 1].ev = "post" /\ trace[i - 1].obj = trace[i].obj
                    /\ trace[i].ret = trace[i - 1].ret

\* C23's cases: the node with an edge to itself returned an action the edge
\* does not match, after going round once, and the warning is logged.
C23_Witness ==
    /\ SingleNodeFlow /\ EndedUnmatched
    /\ SuccessorsSize(heap[2].successors) > 0
    /\ Cardinality(InnerCalls("post", 1)) = 2
    /\ Cardinality(EndWarnings) = 1

\* The warnings run() has logged.
RunWarnings ==
    {i \in DOMAIN trace :
        trace[i].ev = "warn" /\ trace[i].a = "Node won't run successors. Use Flow."}

\* run() has got past its test of the successor map.
RunStarted == stack = <<>> \/ Top.pc # "run"

\* C24: running a node standalone with run() never runs any of its
\* successors, whatever action its post returns (every call is on the node
\* itself, nothing is cloned, and run() resolves with the action of the
\* node's own post), and it logs a warning whenever the node has at least
\* one outgoing edge and none when it has no edges.
C24_StandaloneRunIgnoresEdges ==
    /\ Len(heap) = 2
    /\ Len(stack) <= 1
    /\ \A i \in DOMAIN trace : trace[i].obj = 1 /\ trace[i].by = 0
    /\ RunStarted =>
          Cardinality(RunWarnings) =
              (IF SuccessorsSize(heap[1].successors) > 0 THEN 1 ELSE 0)
    /\ ~RunStarted => RunWarnings = {}
    /\ RunWarnings \subseteq {1}
    /\ outcome.st = "resolved" =>
          /\ Cardinality(Calls("post", 1)) = 1
          /\ \A i \in Calls("post", 1) : i = Len(trace) /\ outcome.val = trace[i].ret

\* C24's case: a node with a default edge ran standalone, its post returned
\* the action of that edge, and run() has resolved after the warning.
C24_Witness ==
    /\ outcome.st = "resolved"
    /\ heap[1].successors["default"] = 2
    /\ \E i \in Calls("post", 1) : trace[i].ret = "default"
    /\ RunWarnings = {1}

\* The call of on or next made in this step.
Called == trace'[Len(trace')]

\* C25: on(action, node) for an action that already has a successor
\* replaces it (afterwards the successor map has the new node under the
\* action, and getNextNode returns it for every action it looks up as
\* given; every other edge of the node and every other node is unchanged,
\* and the map has as many keys as before) and logs a warning; registering
\* an action that had no successor adds one key and logs no warning; on
\* returns the node it was called on.
C25_OnOverwritesAndWarns ==
    [][ (Len(trace') = Len(trace) + 1 /\ Called.ev = "on") =>
          LET recv == Called.obj
              had == heap[recv].successors[Called.a] # 0
          IN  /\ heap'[recv].successors[Called.a] = Called.b
              /\ Called.a # "" =>
                    GetNextNode(heap'[recv], Called.a) = [node |-> Called.b, warn |-> FALSE]
              /\ \A other \in Actions \ {Called.a} :
                    heap'[recv].successors[other] = heap[recv].successors[other]
              /\ \A n \in DOMAIN heap \ {recv} : heap'[n] = heap[n]
              /\ DOMAIN heap' = DOMAIN heap
              /\ heap'[recv] = [heap[recv] EXCEPT !.successors = heap'[recv].successors]
              /\ SuccessorsSize(heap'[recv].successors) =
                    SuccessorsSize(heap[recv].successors) + (IF had THEN 0 ELSE 1)
              /\ Called.warned = had
              /\ Called.ret = recv ]_vars

\* C25's case: an on for an action that had no successor, without a
\* warning, then an on that gave the same action another node, with one.
C25_Witness ==
    /\ Len(trace) = 2
    /\ trace[1].ev = "on" /\ trace[2].ev = "on"
    /\ trace[1].obj = trace[2].obj /\ trace[1].a = trace[2].a
    /\ trace[1].b # trace[2].b
    /\ ~trace[1].warned /\ trace[2].warned
    /\ heap[trace[2].obj].successors[trace[2].a] = trace[2].b

\* The actions getNextNode takes for the default edge.
DefaultActions == {UndefAction, "", "default"}

\* The call before this step's call was a next, and this step's call is made
\* on the node it returned:  a.next(b).next(c).
Chained ==
    /\ trace # <<>> /\ trace[Len(trace)].ev = "next"
    /\ Called.ev = "next"
    /\ Called.obj = outcome.val

\* C26: next(node) registers node on the default edge (the other edges stay)
\* and returns node, so a.next(b).next(c) builds the chain a -> b -> c, and
\* an absent action, the empty string and "default" all resolve to that
\* same default-edge successor.
C26_NextChainsOnDefaultEdge ==
    [][ (Len(trace') = Len(trace) + 1 /\ Called.ev = "next") =>
          LET recv == Called.obj IN
          /\ heap'[recv].successors = [heap[recv].successors EXCEPT !["default"] = Called.b]
          /\ Called.ret = Called.b
          /\ outcome'.val = Called.b
          /\ \A x \in DefaultActions :
                GetNextNode(heap'[recv], x) = [node |-> Called.b, warn |-> FALSE]
          /\ Chained =>
                LET a == trace[Len(trace)].obj
                    b == trace[Len(trace)].b
                IN  /\ recv = b
                    /\ a # b =>
                          /\ heap'[a].successors["default"] = b
                          /\ heap'[b].successors["default"] = Called.b
                          /\ \A x \in DefaultActions :
                                GetNextNode(heap'[a], x).node = b ]_vars

\* C26's case: a.next(b).next(c) on three different nodes.
C26_Witness ==
    /\ Len(trace) = 2
    /\ trace[1].ev = "next" /\ trace[2].ev = "next"
    /\ trace[1].obj = 1 /\ trace[1].ret = 2
    /\ trace[2].obj = 2 /\ trace[2].ret = 3
    /\ heap[1].successors = [NoSuccessors EXCEPT !["default"] = 2]
    /\ heap[2].successors = [NoSuccessors EXCEPT !["default"] = 3]
    /\ heap[3].successors = NoSuccessors

(***************************************************************************)
(* Claims about cancellation and emit                                      *)
(***************************************************************************)
\* Contexts s and t were built on the same abort controller: one was
\* constructed with the controller the other made, or both with the same.
SameController(s, t) ==
    \/ s = t
    \/ ctx.parent[t] = s /\ ctx.parent[s] = 0
    \/ ctx.parent[s] = t /\ ctx.parent[t] = 0
    \/ ctx.parent[s] # 0 /\ ctx.parent[s] = ctx.parent[t]

\* Every context abort() was called on, every context built on the same
\* controller and every node holding one of them reads aborted = true.
AbortSeenByAll ==
    \A s \in ctx.abortCalls : \A t \in Contexts :
        SameController(s, t) =>
            /\ Aborted(t)
            /\ \A n \in DOMAIN heap : heap[n].shared = t => NodeSeesAborted(n)

\* C27: cancellation is monotonic: after abort() has been called on a Shared
\* Context its aborted flag is true in every later state, whatever
\* operations follow (further aborts, on, emit and its listeners; nothing
\* resets the flag), and every node holding that context, and every Shared
\* Context built on the same abort controller, observes the flag as true.
C27_AbortIsMonotonic ==
    [][ /\ AbortSeenByAll'
        /\ ctx.abortCalls \subseteq ctx'.abortCalls
        /\ \A s \in Contexts : Aborted(s) => Aborted(s)'
        /\ \A n \in DOMAIN heap : NodeSeesAborted(n) => NodeSeesAborted(n)' ]_vars

\* C27's case: abort() was called on the context built with the other
\* one's controller, a node holding the other context reads the flag as
\* true, and an emit on the other context came after the abort.
C27_Witness ==
    /\ ctx.parent[2] = 1
    /\ ctx.abortCalls = {2}
    /\ NodeSeesAborted(1)
    /\ \E k \in DOMAIN ctx.emits : ctx.emits[k].shared = 1 /\ ctx.emits[k].startedAborted

\* The calls of emit so far.
EmitCalls == {ctx.emits[k] : k \in DOMAIN ctx.emits}

\* Emit e has called the first listeners of the list it copied, in order,
\* each once.
CalledInOrder(e) ==
    /\ Len(e.invoked) <= Len(e.list)
    /\ \A j \in DOMAIN e.invoked : e.invoked[j].id = e.list[j].id

\* C28: an emit started after the context was aborted invokes no listener;
\* when the context is aborted while an emit is delivering (between two
\* listeners), none of the listeners after that point is invoked by that
\* emit: no listener is ever called while the signal reads aborted, and an
\* emit that finds the signal aborted after a listener stops there.
C28_EmitStopsOnAbort ==
    \A e \in EmitCalls :
        /\ CalledInOrder(e)
        /\ e.startedAborted => e.invoked = <<>> /\ e.st = "resolved"
        /\ \A j \in DOMAIN e.invoked : ~e.invoked[j].aborted
        /\ (e.st = "running") => e.at = Len(e.invoked)
        /\ (Aborted(e.shared) /\ e.st = "running") =>
              \A j \in DOMAIN e.list : j > e.at => \A i \in DOMAIN e.invoked : e.invoked[i].id # e.list[j].id

\* C28's case: the context was aborted while the first of two listeners was
\* awaited; the emit has ended without calling the second.
C28_Witness ==
    \E e \in EmitCalls :
        /\ ~e.startedAborted
        /\ Len(e.list) = 2 /\ e.list[1].does = "returns"
        /\ Len(e.invoked) = 1
        /\ e.st = "resolved"
        /\ Aborted(e.shared)

\* The errors emit e has logged, in order.
ErrorsOf(e) == SelectSeq(ctx.errors, LAMBDA x : x.emit = e.n)

\* The listeners emit e has called and seen fail: those that throw or reject
\* among the ones it is no longer waiting for.
FailedListeners(e) ==
    {e.list[j].id : j \in {i \in DOMAIN e.invoked :
                              /\ e.list[i].does \in {"throws", "rejects"}
                              /\ i # e.at}}

InnerPhaseCalls(tr) ==
    {i \in DOMAIN tr : tr[i].ev \in {"prep", "exec", "execFallback", "post"} /\ tr[i].by # 0}

\* The objects some Flow has cloned to run them.
Clones == {a \in DOMAIN heap : heap[a].tmpl # a}

ActiveUnits ==
    {u \in Coroutines \X (1..3) :
        /\ u[2] >= 2 /\ u[2] <= Len(StackOf(u[1]))
        /\ StackOf(u[1])[u[2] - 1].obj = 1}

\* In the log tr the lifecycles of the nodes Flow 1 ran do not overlap: when
\* a call on one node is followed by a call on another, the post of the
\* first has returned in between, and the traversals come one after the
\* other.
OneAfterTheOther(tr) ==
    \A i, j \in InnerPhaseCalls(tr) :
        (i < j /\ tr[i].by = 1 /\ tr[j].by = 1 /\ tr[i].obj # tr[j].obj) =>
            /\ \E q \in InnerPhaseCalls(tr) :
                  /\ i <= q /\ q < j
                  /\ tr[q].ev = "post" /\ tr[q].obj = tr[i].obj
            /\ tr[j].ev = "prep" \/ \E q \in InnerPhaseCalls(tr) :
                                       q < j /\ tr[q].ev = "prep" /\ tr[q].obj = tr[j].obj
            /\ tr[i].trav <= tr[j].trav

\* C31: within a single sequential traversal (one _orchestrate call of a
\* Flow, and the successive traversals of a sequential BatchFlow) at most
\* one node is inside its lifecycle at any time: a node's prep starts only
\* after the post of the previously run node has completed.
C31_SequentialTraversalOneUnit ==
    heap[1].cls \in {"Flow", "BatchFlow"} =>
        /\ Cardinality(ActiveUnits) <= 1
        /\ Coroutines = {0}
        /\ OneAfterTheOther(TraceOf(0))

\* C31's case: a BatchFlow has run both nodes for each of two records.
C31_Witness ==
    /\ heap[1].cls = "BatchFlow"
    /\ outcome.st = "resolved"
    /\ Len(Records) = 2
    /\ Cardinality({i \in InnerPhaseCalls(TraceOf(0)) : TraceOf(0)[i].ev = "post"}) = 4

(***************************************************************************)
(* Claims about the lifecycle of a standalone node                         *)
(***************************************************************************)
\* What _exec returned to _run on the node at address 1, read from the calls
\* made: the value of execFallback when it was called, the value of the last
\* exec call otherwise, undefined when the loop made no call.
ExecResultOf ==
    IF Calls("execFallback", 1) # {}
    THEN LET i == CHOOSE i \in Calls("execFallback", 1) : TRUE IN
         [t |-> "fallback", of |-> trace[i].a, err |-> trace[i].b]
    ELSE IF Calls("exec", 1) # {}
    THEN [t |-> "ok", of |-> PrepResultOf(1), attempt |-> Cardinality(Calls("exec", 1))]
    ELSE Undefined

\* C32: run() on a standalone node calls prep, then the retry-wrapped exec
\* with prep's result, then post with prep's result and exec's result, each
\* phase exactly once and starting only after the previous phase has
\* completed, and returns the action returned by post.
C32_RunLifecycle ==
    /\ Cardinality(Calls("prep", 1)) <= 1
    /\ Cardinality(Calls("post", 1)) <= 1
    /\ \A i \in Calls("exec", 1) \cup Calls("execFallback", 1) :
          /\ \E q \in Calls("prep", 1) : q < i
          /\ trace[i].a = PrepResultOf(1)
          /\ \A q \in Calls("post", 1) : i < q
    /\ \A i \in Calls("post", 1) :
          /\ \E q \in Calls("prep", 1) : q < i
          /\ trace[i].a = PrepResultOf(1)
          /\ trace[i].b = ExecResultOf
    /\ outcome.st = "resolved" =>
          /\ Cardinality(Calls("prep", 1)) = 1
          /\ Cardinality(Calls("post", 1)) = 1
          /\ \A i \in Calls("post", 1) : outcome.val = trace[i].ret

\* C32's case: a run whose exec succeeded on a retry has returned an action
\* that post chose.
C32_Witness ==
    /\ outcome.st = "resolved" /\ outcome.val # UndefAction
    /\ Cardinality(Calls("exec", 1)) >= 2
    /\ PrepResultOf(1) # Undefined

(***************************************************************************)
(* Claims about the retries of the items of a batch node                   *)
(***************************************************************************)
\* The items whose _execItem has returned or thrown.
SettledItems == {p \in DOMAIN tasks : tasks[p].st \in {"done", "failed"}}

\* C33: in a batch node with maxRetries = k >= 1 every item has its own
\* attempt count: execItem is called at most k times for that item, a
\* success stops that item's retries, and only after that item's k-th
\* failure is execFallbackItem called, once, with that item and its last
\* error; attempts spent on one item never reduce the attempts available to
\* another item, in the sequential and in the parallel variant.
C33_RetriesArePerItem ==
    heap[1].maxRetries >= 1 =>
        \A p \in DOMAIN tasks :
            LET t == tasks[p]
                k == heap[1].maxRetries
            IN
            /\ t.calls <= k /\ t.calls <= t.item.failN + 1
            /\ t.fallbacks <= 1
            /\ t.fallbacks = 1 =>
                  /\ t.calls = k /\ t.item.failN >= k
                  /\ t.st = "fallback" => t.err = ItemError(t.item, k)
            /\ p \in SettledItems =>
                  IF t.item.failN < k
                  THEN /\ t.calls = t.item.failN + 1 /\ t.fallbacks = 0
                       /\ t.st = "done" /\ t.res = ItemResult(t.item, t.item.failN + 1)
                  ELSE /\ t.calls = k /\ t.fallbacks = 1
                       /\ t.st = "done" =>
                             t.res = [t |-> "fallback", of |-> t.item.v,
                                      err |-> ItemError(t.item, k)]
                       /\ t.st = "failed" => t.err = ItemError(t.item, k)

\* C33's case: with two attempts per item, the first item has used both and
\* got its fallback, and the second has still had its two attempts and
\* succeeded on the second.
C33_Witness ==
    /\ heap[1].maxRetries = 2
    /\ Len(tasks) = 2 /\ SettledItems = {1, 2}
    /\ tasks[1].calls = 2 /\ tasks[1].fallbacks = 1
    /\ tasks[2].calls = 2 /\ tasks[2].fallbacks = 0
    /\ tasks[2].res = ItemResult(tasks[2].item, 2)

(***************************************************************************)
(* Claims about clone                                                      *)
(***************************************************************************)
\* The pairs <<node, clone>> of the clone calls made so far.
ClonePairs == {<<trace[i].obj, trace[i].ret>> : i \in {j \in DOMAIN trace : trace[j].ev = "clone"}}

\* What node n shows of its own: its edges and the entries of its params.
OwnView(h, ps, n) == [successors |-> h[n].successors, params |-> ps[h[n].params]]

\* The step is a call of clone whose result has a new id, the same context,
\* a new parameter record with the same entries and the same edges to the
\* same nodes, and which touches no existing node.
ClonedRight ==
    LET t == outcome'.obj
        c == outcome'.val
    IN  /\ c \notin DOMAIN heap /\ DOMAIN heap' = DOMAIN heap \cup {c}
        /\ \A n \in DOMAIN heap : heap'[c].id # heap[n].id
        /\ heap'[c].shared = heap[t].shared
        /\ \A n \in DOMAIN heap : heap'[c].params # heap[n].params
        /\ pstore'[heap'[c].params] = pstore[heap[t].params]
        /\ heap'[c].successors = heap[t].successors
        /\ \A n \in DOMAIN heap : heap'[n] = heap[n] /\ OwnView(heap', pstore', n) = OwnView(heap, pstore, n)

\* The step writes an edge or a param through node x only: the view of
\* every node x was cloned from, and of every clone of x, stays.
WrittenAlone ==
    LET x == outcome'.obj IN
    \A pr \in ClonePairs :
        /\ pr[2] = x => OwnView(heap', pstore', pr[1]) = OwnView(heap, pstore, pr[1])
        /\ pr[1] = x => OwnView(heap', pstore', pr[2]) = OwnView(heap, pstore, pr[2])

\* C34: clone() returns a node with a new id different from the template's,
\* the same Shared Context reference, a new params record with the same
\* entries, and a new successor map with the same entries pointing to the
\* same (uncloned) successor nodes; adding or overwriting an edge or a param
\* on the clone leaves the template's successor map and params unchanged,
\* and the other way round.
C34_CloneIsIndependent ==
    [][ /\ calls' = calls + 1
        /\ outcome'.ev = "clone" => ClonedRight
        /\ outcome'.ev \in {"on", "param"} => WrittenAlone ]_vars

\* C34's case: a node with an edge and params was cloned, and then an edge
\* and a param of the clone were written: the two differ in both.
C34_Witness ==
    /\ <<1, 4>> \in ClonePairs
    /\ pstore[1] = TemplateParams /\ pstore[heap[4].params] # TemplateParams
    /\ heap[1].successors["default"] = 2 /\ heap[4].successors["default"] = 3
    /\ heap[4].id # heap[1].id /\ heap[4].shared = heap[1].shared

(***************************************************************************)
(* Claims about the events collect captures                                *)
(***************************************************************************)
\* The emits in the log tr.
EmitsIn(tr) == {i \in DOMAIN tr : tr[i].ev = "emit"}

\* collect's listener has pushed the event of emit i of orchestration k.
IsCaptured(k, i) == ~Delayed(TraceOf(k)[i].a.name) \/ i \in ReleasedEmits(k)

\* When collect's listener pushed the event of emit i of orchestration k:
\* at the emit itself, or after the entry of the log that was the last one
\* when the earlier listener settled.
PushedAt(k, i) ==
    IF ~Delayed(TraceOf(k)[i].a.name) THEN 2 * i
    ELSE LET r == CHOOSE q \in DOMAIN insp.released :
                     insp.released[q].k = k /\ insp.released[q].emit = i
         IN  2 * insp.released[r].at + 1

\* The event of emit i is in the events array before that of emit j.
CapturedBefore(k, i, j) ==
    \/ PushedAt(k, i) < PushedAt(k, j)
    \/ PushedAt(k, i) = PushedAt(k, j) /\ i < j

\* The place of a trace event in the lifecycle of a node.
RankOf(name) ==
    CASE name = "run_start" -> 1 [] name = "prep_start" -> 2 [] name = "prep_result" -> 3
      [] name = "exec_start" -> 4 [] name = "exec_result" -> 5
      [] name = "orchestrate_start" -> 4 [] name = "orchestrate_end" -> 4
      [] name = "post_start" -> 6 [] name = "post_result" -> 7 [] name = "run_end" -> 8

\* As emitted, the events of every node of the log tr are in lifecycle
\* order, and those of the inner nodes come after an orchestrate_start.
EmittedNested(tr) ==
    \A i, j \in EmitsIn(tr) :
        /\ (i < j /\ tr[i].obj = tr[j].obj) => RankOf(tr[i].a.name) <= RankOf(tr[j].a.name)
        /\ (tr[j].tmpl # 1 /\ heap[1].injected) =>
              \E q \in EmitsIn(tr) : q < j /\ tr[q].a.name = "orchestrate_start"

\* C35: for every node run of an instrumented graph, the trace events
\* captured by collect appear in the order they were emitted and properly
\* nested: run_start, prep_start, prep_result, exec_start, exec_result,
\* post_start, post_result, run_end for a node, and for a Flow
\* orchestrate_start and orchestrate_end around the events of its inner
\* nodes; every result event comes after its start event.
C35_CapturedInEmittedOrder ==
    insp.pc # "none" =>
        \A k \in Coroutines :
            /\ EmittedNested(TraceOf(k))
            /\ \A i, j \in EmitsIn(TraceOf(k)) :
                  (i < j /\ IsCaptured(k, j)) => IsCaptured(k, i) /\ CapturedBefore(k, i, j)

\* The order of C35 when no earlier listener keeps an emit waiting.
CapturedInOrderIfPrompt == ~insp.slow => C35_CapturedInEmittedOrder

(***************************************************************************)
(* Claims about writes to the params of a running node                     *)
(***************************************************************************)
\* C37: parameter writes do not leak across runs: a node that adds or
\* changes a field of its own params record while running inside a Flow
\* changes neither the Flow's own params record nor the params observed by
\* the nodes of a later run of the same Flow.
C37_ParamWritesDoNotLeak ==
    /\ pstore[heap[1].params] = CallerParams
    /\ calls >= 2 =>
          \A i \in InnerPhaseCalls(trace) :
              (trace[i].by = 1 /\ trace[i].ev = "prep") => trace[i].params = CallerParams

\* The start node of the second run of the Flow observes what the start
\* node of the first run wrote.
LeakedIntoLaterRun ==
    /\ calls = 2
    /\ \E i \in InnerPhaseCalls(trace) :
          /\ trace[i].by = 1 /\ trace[i].ev = "prep" /\ trace[i].tmpl = 2
          /\ trace[i].params["k1"] = "w"

(***************************************************************************)
(* Claims about the logger                                                 *)
(***************************************************************************)
\* The listeners registered with logger.on(level, ..) or logger.onAll
\* before the logger call number n was made.
KnownTo(n, list) == {list[i] : i \in {j \in DOMAIN list : list[j] <= ctx.logCalls[n].known}}

\* The listeners called for logger call n through the hook via.
Reached(n, via) == {d.to : d \in {x \in ctx.delivered : x.root = n /\ x.via = via}}

\* C36: after the context is aborted, logger.debug, logger.info and
\* logger.warn do nothing (no level listener, no catch-all listener and no
\* subscriber of the 'log' event is invoked), while logger.error still
\* reaches the error-level listeners and the catch-all log listeners.
C36_OnlyErrorsAfterAbort ==
    /\ \A d \in ctx.delivered :
          d.aborted => d.level = "error" /\ d.via \in {"level", "all"}
    /\ \A n \in DOMAIN ctx.logCalls :
          ctx.logCalls[n].aborted =>
              IF ctx.logCalls[n].level = "error"
              THEN /\ Reached(n, "level") = KnownTo(n, ctx.logListeners["error"])
                   /\ Reached(n, "all") = KnownTo(n, ctx.allLogsListeners)
              ELSE Reached(n, "level") \cup Reached(n, "all") \cup Reached(n, "log") = {}

\* C36's case: after abort, with a warn listener, a catch-all listener and
\* a subscriber of 'log' in place, logger.warn and logger.error were
\* called: the catch-all listener heard the error and nothing of the warn,
\* the warn listener and the subscriber heard nothing.
C36_Witness ==
    /\ Aborted(1)
    /\ Len(ctx.logCalls) = 2
    /\ ctx.logCalls[1] = [level |-> "warn", aborted |-> TRUE, known |-> 3]
    /\ ctx.logCalls[2] = [level |-> "error", aborted |-> TRUE, known |-> 3]
    /\ ctx.logListeners["warn"] # <<>>
    /\ ctx.allLogsListeners # <<>> /\ ctx.listeners[1] # <<>>
    /\ Reached(2, "all") # {} /\ Reached(2, "log") = {}
    /\ Reached(1, "all") = {} /\ Reached(1, "log") = {} /\ Reached(1, "level") = {}

\* C38: every emit call terminates after invoking each registered listener
\* of its event at most once, also for the 'log' event when one of its
\* listeners throws: logging the listener's error does not re-enter
\* delivery to that listener without bound (the chain of emits that the
\* logging of listener errors starts ends by itself, before the depth at
\* which it is cut off).
C38_LogDeliveryIsBounded ==
    \A k \in DOMAIN ctx.logEmits :
        LET e == ctx.logEmits[k] IN
        /\ \A i, j \in DOMAIN e.invoked : e.invoked[i] = e.invoked[j] => i = j
        /\ e.depth < MaxLogDepth

(***************************************************************************)
(* Claims about the retry configuration                                    *)
(***************************************************************************)
\* C39: for every retry configuration a node can be constructed with,
\* run() calls exec at least once before post: post never receives an exec
\* result that neither an exec call nor a fallback call produced.
C39_ExecPrecedesPost ==
    \A i \in Calls("post", 1) :
        \E q \in Calls("exec", 1) \cup Calls("execFallback", 1) : q < i

\* The same with at least one attempt configured.
ExecPrecedesPostWithAttempts ==
    heap[1].maxRetries >= 1 => C39_ExecPrecedesPost

\* A node constructed with maxRetries = 0 has had its post called with an
\* undefined exec result and has returned, and exec was never called.
PostWithoutExec ==
    /\ heap[1].maxRetries = 0 /\ outcome.st = "resolved"
    /\ Calls("exec", 1) = {}
    /\ \E i \in Calls("post", 1) : trace[i].b = Undefined

\* For a batch node: every item that has settled had execItem called on it.
EveryItemExecuted ==
    \A p \in SettledItems : tasks[p].calls >= 1

(***************************************************************************)
(* Claims about the termination of a traversal                             *)
(***************************************************************************)
\* The nodes as constructed (the clones a traversal makes come after them).
Templates == {a \in DOMAIN heap : heap[a].tmpl = a}

Largest(S) == IF S = {} THEN 0 ELSE CHOOSE x \in S : \A y \in S : y <= x

\* The number of nodes on the longest walk along the edges from node n that
\* has at most fuel nodes.
RECURSIVE LongestWalk(_, _)
LongestWalk(n, fuel) ==
    IF n = 0 \/ fuel = 0 THEN 0
    ELSE 1 + Largest({LongestWalk(heap[n].successors[a], fuel - 1) :
                          a \in DOMAIN heap[n].successors})

\* A walk from n with more nodes than there are nodes repeats one.
HasCycle(n) == LongestWalk(n, Cardinality(Templates) + 1) > Cardinality(Templates)

LongestPath(n) == LongestWalk(n, Cardinality(Templates))

\* The runs of nodes the Flow f has started, and the actions they returned.
NodeRuns(f) == {i \in DOMAIN trace : trace[i].ev = "prep" /\ trace[i].by = f}

Returns(f) == {i \in DOMAIN trace : trace[i].ev = "post" /\ trace[i].by = f}

\* The action a node returned has no matching successor.
DeadEndAt(i) == GetNextNode(heap[trace[i].obj], trace[i].ret).node = 0

DeadEndReturned == \E i \in Returns(1) : DeadEndAt(i)

\* No Flow of the graph has a cycle among the nodes it traverses.
NoCycle == \A f \in Flows : ~HasCycle(heap[f].start)

\* A Flow runs at most as many nodes as the longest path from its start has.
RunsWithinLongestPath ==
    \A f \in Flows :
        ~HasCycle(heap[f].start) => Cardinality(NodeRuns(f)) <= LongestPath(heap[f].start)

\* A Flow goes on after every action that has a successor and runs no node
\* after one that has none; its traversal has ended (its own post is
\* called) only after the last node it ran returned such an action; and
\* run() does not settle before unless a node throws.
EndsAtDeadEndOnly ==
    /\ \A f \in Flows :
          /\ \A i \in Returns(f) : DeadEndAt(i) => \A j \in NodeRuns(f) : j < i
          /\ Calls("post", f) # {} =>
                /\ \E i \in Returns(f) : DeadEndAt(i)
                /\ \A i \in Returns(f) : \A q \in Calls("post", f) : i < q
    /\ Settled => outcome.st = "rejected" \/ DeadEndReturned

\* C40: if the graph reachable from start has no cycle and every phase of
\* every node terminates, Flow.run() terminates after running at most as
\* many nodes as the longest path from start; on a graph with a cycle (e.g.
\* a node that is its own successor) it terminates exactly when some node
\* on the way returns an action that has no matching successor.
C40_TraversalTerminates ==
    /\ [](RunsWithinLongestPath /\ EndsAtDeadEndOnly)
    /\ (NoCycle => <>Settled)
    /\ (DeadEndReturned ~> Settled)

\* C40's case: the node that is its own successor on "go" has run three
\* times, returned an action without a successor the third time, and
\* run() has resolved.
C40_Witness ==
    /\ heap[2].successors["go"] = 2
    /\ outcome.st = "resolved"
    /\ Cardinality(NodeRuns(1)) = 3
    /\ \E i \in Returns(1) : DeadEndAt(i) /\ Cardinality({j \in Returns(1) : j < i}) = 2

\* The chain of three nodes has been run to its end.
ChainRanLongestPath ==
    /\ ~HasCycle(2) /\ LongestPath(2) = 3
    /\ outcome.st = "resolved" /\ Cardinality(NodeRuns(1)) = 3

\* The node that is its own successor is still being run after as many
\* runs as the model follows, no action without a successor having been
\* returned.
LoopStillRunning ==
    /\ heap[2].successors["go"] = 2
    /\ outcome.st = "pending" /\ ~MayStartRun /\ ~DeadEndReturned

=============================================================================
